---------------------------- MODULE Spec2Model ----------------------------
(***************************************************************************)
(* Model of the replicated game-state engine of mp_mtg:                    *)
(*   client/src/p2p/GameStateManager.js   (state store, action processor,  *)
(*                                          consensus coordinator)         *)
(*   P2PConnectionManager                  (mesh manager)                  *)
(*   SinglePlayerConnectionManager         (single-player stub)            *)
(*   SinglePlayerGameStateManager          (its action processor)          *)
(*                                                                         *)
(* A GameState is the record  [version, activePlayer, phase, turn,         *)
(* players], the fields the handlers read or write.  The fields id,        *)
(* timestamp, stack, config and the players' name / commander /            *)
(* isCurrentPlayer are carried along by the code and never read by it;     *)
(* they are left out.  "No state yet" (gameState === null) is the record   *)
(* NoState, whose version is 0 (initializeGameState starts at 1).          *)
(***************************************************************************)
EXTENDS Integers, Sequences, FiniteSets, TLC

(***************************************************************************)
(* Program constants                                                       *)
(***************************************************************************)
HistoryLimit == 20
PendingTTL == 10000
ConsensusDelay == 500
StartLife == 20

(***************************************************************************)
(* Bounds of the model                                                     *)
(***************************************************************************)
PeerVersion == 2
MaxTicks == 1
MaxActions == 2

(***************************************************************************)
(* Generic helpers                                                         *)
(***************************************************************************)
Zones == {"library", "hand", "battlefield", "graveyard", "exile"}
CounterTypes == {"p1p1"}
NoCount == -1

RemoveAt(s, i) == SubSeq(s, 1, i - 1) \o SubSeq(s, i + 1, Len(s))

\* Array.prototype.findIndex on a zone, by card id; 0 when absent (JS: -1)
IndexOfCard(zone, cardId) ==
  IF \E i \in 1..Len(zone) : zone[i].id = cardId
  THEN CHOOSE i \in 1..Len(zone) :
         /\ zone[i].id = cardId
         /\ \A j \in 1..(i - 1) : zone[j].id # cardId
  ELSE 0

\* state.players.find(p => p.id === playerId); 0 when absent
IndexOfPlayer(state, playerId) ==
  IF \E i \in 1..Len(state.players) : state.players[i].id = playerId
  THEN CHOOSE i \in 1..Len(state.players) :
         /\ state.players[i].id = playerId
         /\ \A j \in 1..(i - 1) : state.players[j].id # playerId
  ELSE 0

Card(i) == [id |-> i, isToken |-> FALSE, counters |-> [t \in CounterTypes |-> 0]]

NoState ==
  [version |-> 0, activePlayer |-> 0, phase |-> "", turn |-> 0, players |-> <<>>]

HasState(s) == s.version # 0

\* tokenData is told by its id field, NoId when it carries none
NoId == 0

BasePayload ==
  [playerId |-> 0, cardId |-> 0, count |-> NoCount, delta |-> 0, phase |-> "",
   sourceZone |-> "", targetZone |-> "", counterType |-> "", position |-> "",
   tokenData |-> [id |-> NoId]]

\* the outcome of the calls to uuidv4() and Math.random() made by one handler
NoRnd == [uuid |-> 0, js |-> <<>>]

(***************************************************************************)
(* Action Processor: one operator per handler.  Each takes the cloned      *)
(* state (version already incremented) and yields [ok, state]; the commit  *)
(* (setGameState) is done by ProcessAction.                                *)
(***************************************************************************)
Fail(state) == [ok |-> FALSE, state |-> state]
Done(state) == [ok |-> TRUE, state |-> state]

\* processDrawCard that refuses to draw the whole library
processDrawCardKeepingOne(state, action) ==
  LET pi == IndexOfPlayer(state, action.payload.playerId)
      count == IF action.payload.count = NoCount THEN 1 ELSE action.payload.count
  IN IF pi = 0 THEN Fail(state)
     ELSE LET player == state.players[pi]
              n == IF count < 0 THEN 0 ELSE count
          IN IF Len(player.library) <= count THEN Fail(state)
             ELSE Done([state EXCEPT
                    !.players[pi].library = SubSeq(player.library, n + 1, Len(player.library)),
                    !.players[pi].hand = player.hand \o SubSeq(player.library, 1, n)])

processDrawCard(state, action) ==
  LET pi == IndexOfPlayer(state, action.payload.playerId)
      count == IF action.payload.count = NoCount THEN 1 ELSE action.payload.count
  IN IF pi = 0 THEN Fail(state)
     ELSE LET player == state.players[pi]
              n == IF count < 0 THEN 0 ELSE count
          IN IF Len(player.library) < count THEN Fail(state)
             ELSE Done([state EXCEPT
                    !.players[pi].library = SubSeq(player.library, n + 1, Len(player.library)),
                    !.players[pi].hand = player.hand \o SubSeq(player.library, 1, n)])

\* a processPlayCard that commits the hand it took the card from when the
\* target zone is unknown
processPlayCardDroppingCard(state, action) ==
  LET pi == IndexOfPlayer(state, action.payload.playerId)
      targetZone == IF action.payload.targetZone = "" THEN "battlefield"
                    ELSE action.payload.targetZone
  IN IF pi = 0 THEN Fail(state)
     ELSE LET player == state.players[pi]
              ci == IndexOfCard(player.hand, action.payload.cardId)
          IN IF ci = 0 THEN Fail(state)
             ELSE IF targetZone \notin {"battlefield", "graveyard", "exile"}
             THEN Done([state EXCEPT !.players[pi].hand = RemoveAt(player.hand, ci)])
             ELSE Done([state EXCEPT
                    !.players[pi].hand = RemoveAt(player.hand, ci),
                    !.players[pi][targetZone] = Append(player[targetZone], player.hand[ci])])

processPlayCard(state, action) ==
  LET pi == IndexOfPlayer(state, action.payload.playerId)
      targetZone == IF action.payload.targetZone = "" THEN "battlefield"
                    ELSE action.payload.targetZone
  IN IF pi = 0 THEN Fail(state)
     ELSE LET player == state.players[pi]
              ci == IndexOfCard(player.hand, action.payload.cardId)
          IN IF ci = 0 THEN Fail(state)
             ELSE IF targetZone \notin {"battlefield", "graveyard", "exile"} THEN Fail(state)
             ELSE Done([state EXCEPT
                    !.players[pi].hand = RemoveAt(player.hand, ci),
                    !.players[pi][targetZone] = Append(player[targetZone], player.hand[ci])])

processMoveCard(state, action) ==
  LET pi == IndexOfPlayer(state, action.payload.playerId)
      src == action.payload.sourceZone
      tgt == action.payload.targetZone
  IN IF pi = 0 \/ src \notin Zones \/ tgt \notin Zones THEN Fail(state)
     ELSE LET player == state.players[pi]
              ci == IndexOfCard(player[src], action.payload.cardId)
          IN IF ci = 0 THEN Fail(state)
             ELSE LET p1 == [player EXCEPT ![src] = RemoveAt(player[src], ci)]
                      p2 == [p1 EXCEPT ![tgt] = Append(p1[tgt], player[src][ci])]
                  IN Done([state EXCEPT !.players[pi] = p2])

processUpdateLife(state, action) ==
  LET pi == IndexOfPlayer(state, action.payload.playerId)
  IN IF pi = 0 THEN Fail(state)
     ELSE Done([state EXCEPT !.players[pi].life = @ + action.payload.delta])

ValidPhases == {"untap", "upkeep", "draw", "main1", "combat", "main2", "end"}

processChangePhase(state, action) ==
  IF action.payload.phase \notin ValidPhases THEN Fail(state)
  ELSE Done([state EXCEPT !.phase = action.payload.phase])

\* a processNextTurn that stays on the last player instead of wrapping
processNextTurnWithoutWrap(state, action) ==
  LET n == Len(state.players)
      cur0 == IndexOfPlayer(state, state.activePlayer) - 1
  IN IF n = 0 THEN Fail(state)
     ELSE Done([state EXCEPT
            !.activePlayer = state.players[IF cur0 + 1 >= n THEN n ELSE cur0 + 2].id,
            !.phase = "untap",
            !.turn = @ + 1])

processNextTurn(state, action) ==
  LET n == Len(state.players)
      cur0 == IndexOfPlayer(state, state.activePlayer) - 1
  IN IF n = 0 THEN Fail(state)
     ELSE Done([state EXCEPT
            !.activePlayer = state.players[((cur0 + 1) % n) + 1].id,
            !.phase = "untap",
            !.turn = @ + 1])

processAddCounter(state, action) ==
  LET pi == IndexOfPlayer(state, action.payload.playerId)
      count == IF action.payload.count = NoCount THEN 1 ELSE action.payload.count
      ct == action.payload.counterType
  IN IF pi = 0 THEN Fail(state)
     ELSE LET ci == IndexOfCard(state.players[pi].battlefield, action.payload.cardId)
          IN IF ci = 0 \/ ct \notin CounterTypes THEN Fail(state)
             ELSE Done([state EXCEPT
                    !.players[pi].battlefield[ci].counters[ct] = @ + count])

\* a processRemoveCounter without the floor at 0
processRemoveCounterBelowZero(state, action) ==
  LET pi == IndexOfPlayer(state, action.payload.playerId)
      count == IF action.payload.count = NoCount THEN 1 ELSE action.payload.count
      ct == action.payload.counterType
  IN IF pi = 0 THEN Fail(state)
     ELSE LET ci == IndexOfCard(state.players[pi].battlefield, action.payload.cardId)
          IN IF ci = 0 \/ ct \notin CounterTypes THEN Fail(state)
             ELSE LET old == state.players[pi].battlefield[ci].counters[ct]
                  IN IF old = 0 THEN Fail(state)
                     ELSE Done([state EXCEPT
                            !.players[pi].battlefield[ci].counters[ct] = old - count])

\* a counter a card does not carry counts 0 in counters: both handlers test
\* !card.counters[counterType], which is true of a missing counter and of 0
processRemoveCounter(state, action) ==
  LET pi == IndexOfPlayer(state, action.payload.playerId)
      count == IF action.payload.count = NoCount THEN 1 ELSE action.payload.count
      ct == action.payload.counterType
  IN IF pi = 0 THEN Fail(state)
     ELSE LET ci == IndexOfCard(state.players[pi].battlefield, action.payload.cardId)
          IN IF ci = 0 \/ ct \notin CounterTypes THEN Fail(state)
             ELSE LET old == state.players[pi].battlefield[ci].counters[ct]
                  IN IF old = 0 THEN Fail(state)
                     ELSE Done([state EXCEPT
                            !.players[pi].battlefield[ci].counters[ct] =
                               IF old - count > 0 THEN old - count ELSE 0])

processCreateToken(state, action, rnd) ==
  LET pi == IndexOfPlayer(state, action.payload.playerId)
  IN IF pi = 0 THEN Fail(state)
     ELSE Done([state EXCEPT
            !.players[pi].battlefield =
               Append(@, [id |-> rnd.uuid, isToken |-> TRUE,
                          counters |-> [t \in CounterTypes |-> 0]])])

Swap(s, a, b) == [s EXCEPT ![a] = s[b], ![b] = s[a]]

\* Fisher-Yates: for i = len-1 down to 1 (0-based), j = floor(random * (i+1));
\* rnd.js[i] is the draw of Math.random at step i
RECURSIVE FisherYates(_, _, _)
FisherYates(lib, i, js) ==
  IF i < 1 THEN lib
  ELSE LET j == (IF i \in DOMAIN js THEN js[i] ELSE 0) % (i + 1)
       IN FisherYates(Swap(lib, i + 1, j + 1), i - 1, js)

processShuffleLibrary(state, action, rnd) ==
  LET pi == IndexOfPlayer(state, action.payload.playerId)
  IN IF pi = 0 THEN Fail(state)
     ELSE Done([state EXCEPT
            !.players[pi].library = FisherYates(@, Len(@) - 1, rnd.js)])

processMoveToLibrary(state, action) ==
  LET pi == IndexOfPlayer(state, action.payload.playerId)
      src == action.payload.sourceZone
  IN IF pi = 0 \/ src \notin Zones THEN Fail(state)
     ELSE LET player == state.players[pi]
              ci == IndexOfCard(player[src], action.payload.cardId)
          IN IF ci = 0 THEN Fail(state)
             ELSE LET p1 == [player EXCEPT ![src] = RemoveAt(player[src], ci)]
                      p2 == [p1 EXCEPT !.library =
                               IF action.payload.position = "bottom"
                               THEN Append(p1.library, player[src][ci])
                               ELSE <<player[src][ci]>> \o p1.library]
                  IN Done([state EXCEPT !.players[pi] = p2])

\* a switch whose default case accepts the action as one that changes nothing
HandleAcceptingUnknown(state, action, rnd) ==
  CASE action.type = "draw-card" -> processDrawCard(state, action)
    [] action.type = "play-card" -> processPlayCard(state, action)
    [] action.type = "move-card" -> processMoveCard(state, action)
    [] action.type = "update-life" -> processUpdateLife(state, action)
    [] action.type = "change-phase" -> processChangePhase(state, action)
    [] action.type = "next-turn" -> processNextTurn(state, action)
    [] action.type = "add-counter" -> processAddCounter(state, action)
    [] action.type = "remove-counter" -> processRemoveCounter(state, action)
    [] action.type = "create-token" -> processCreateToken(state, action, rnd)
    [] action.type = "shuffle-library" -> processShuffleLibrary(state, action, rnd)
    [] action.type = "move-to-library" -> processMoveToLibrary(state, action)
    [] OTHER -> Done(state)

\* the switch of processAction
Handle(state, action, rnd) ==
  CASE action.type = "draw-card" -> processDrawCard(state, action)
    [] action.type = "play-card" -> processPlayCard(state, action)
    [] action.type = "move-card" -> processMoveCard(state, action)
    [] action.type = "update-life" -> processUpdateLife(state, action)
    [] action.type = "change-phase" -> processChangePhase(state, action)
    [] action.type = "next-turn" -> processNextTurn(state, action)
    [] action.type = "add-counter" -> processAddCounter(state, action)
    [] action.type = "remove-counter" -> processRemoveCounter(state, action)
    [] action.type = "create-token" -> processCreateToken(state, action, rnd)
    [] action.type = "shuffle-library" -> processShuffleLibrary(state, action, rnd)
    [] action.type = "move-to-library" -> processMoveToLibrary(state, action)
    [] OTHER -> Fail(state)


(***************************************************************************)
(* The coordinator (one GameStateManager instance) is the record           *)
(*   gameState       this.gameState (NoState for null)                     *)
(*   stateHistory    this.stateHistory, entries [state, timestamp]         *)
(*   actionLog       this.actionLog, entries [action, appliedAt]           *)
(*   pendingActions  this.pendingActions: id -> [action, votes, timestamp] *)
(*   timers          the setTimeout callbacks not yet run: [id, due]       *)
(*   out             the messages handed to the mesh manager by the        *)
(*                   handler that ran last, in order: [to, msg]            *)
(*   threw           the handler that ran last ended by an exception       *)
(*   ok, ret         result of the last processAction / of the last call   *)
(* The environment of a handler is e = [now, connected, kind, self]:       *)
(* Date.now(), the peers whose link is connected, the mesh manager's       *)
(* class and this.userId.                                                  *)
(*                                                                         *)
(* kind = "p2p"     P2PConnectionManager.  It defines no isConnected       *)
(*                  method, so the call at GameStateManager.js:75 raises   *)
(*                  a TypeError after the state has been replaced.         *)
(* kind = "single"  SinglePlayerConnectionManager: every call is a no-op,  *)
(*                  isConnected() is false.                                *)
(* kind = "mesh"    a mesh manager with the P2PConnectionManager           *)
(*                  behaviour that also answers isConnected(), the         *)
(*                  interface GameStateManager.js:75 calls and the stub    *)
(*                  declares "for GameStateManager interface               *)
(*                  compatibility".                                        *)
(***************************************************************************)
Kinds == {"p2p", "single", "mesh"}

\* stateListeners: the callbacks registered, in the order a Set iterates
\* them; heard: the calls the running handler made to them; removed: the
\* callbacks taken out through their unsubscribe function;
\* consistencyCheckInterval: the handle kept of setInterval (0: none);
\* intervals: the handles of the intervals that are running; handles: the
\* handles given out; cleaned: cleanup() has returned
NewManager ==
  [gameState |-> NoState, stateHistory |-> <<>>, actionLog |-> <<>>,
   pendingActions |-> <<>>, timers |-> {}, out |-> <<>>,
   threw |-> FALSE, ok |-> FALSE, ret |-> FALSE,
   stateListeners |-> <<>>, heard |-> <<>>, removed |-> {},
   consistencyCheckInterval |-> 0, intervals |-> {}, handles |-> 0,
   cleaned |-> FALSE]

\* what a handler starts from: nothing sent yet, nothing thrown
Enter(m) ==
  [m EXCEPT !.out = <<>>, !.threw = FALSE, !.ok = FALSE, !.ret = FALSE,
            !.heard = <<>>]

\* the state listeners the application registers; the first one writes to
\* the object it is handed
Listeners == {1, 2, 3}
Meddles(l) == l = 1
Scribble(state) == [state EXCEPT !.phase = "scribbled"]

\* addStateListener: Set.add keeps a callback once
addStateListener(m, l) ==
  IF \E i \in DOMAIN m.stateListeners : m.stateListeners[i] = l THEN m
  ELSE [m EXCEPT !.stateListeners = Append(@, l)]

\* the function addStateListener returned: Set.delete
unsubscribe(m, l) ==
  [m EXCEPT !.stateListeners = SelectSeq(@, LAMBDA x : x # l),
            !.removed = @ \cup {l}]

\* stateListeners.forEach(callback => callback(arg)): objects is the store's
\* state object and the clone, arg names the one handed to the callbacks
RECURSIVE CallEach(_, _, _, _)
CallEach(objects, arg, ls, heard) ==
  IF ls = <<>> THEN [objects |-> objects, heard |-> heard]
  ELSE CallEach(IF Meddles(ls[1]) THEN [objects EXCEPT ![arg] = Scribble(@)]
                ELSE objects,
                arg, Tail(ls),
                Append(heard, [listener |-> ls[1], state |-> objects[arg]]))

\* the callbacks are handed this.gameState itself
notifyStateListenersUncloned(m) ==
  LET told(r) == [m EXCEPT !.gameState = r.objects.store, !.heard = @ \o r.heard]
  IN IF ~HasState(m.gameState) THEN m
     ELSE told(CallEach([store |-> m.gameState, clone |-> m.gameState],
                        "store", m.stateListeners, <<>>))

\* notifyStateListeners: one JSON clone of this.gameState is handed to
\* every callback
notifyStateListeners(m) ==
  LET told(r) == [m EXCEPT !.gameState = r.objects.store, !.heard = @ \o r.heard]
  IN IF ~HasState(m.gameState) THEN m
     ELSE told(CallEach([store |-> m.gameState, clone |-> m.gameState],
                        "clone", m.stateListeners, <<>>))

getConnectedPeers(e) == IF e.kind = "single" THEN {} ELSE e.connected

RECURSIVE SendEach(_, _, _)
SendEach(m, data, peers) ==
  IF peers = {} THEN m
  ELSE LET p == CHOOSE x \in peers : \A y \in peers : x <= y
       IN SendEach([m EXCEPT !.out = Append(@, [to |-> p, msg |-> data])],
                   data, peers \ {p})

\* P2PConnectionManager.broadcast: one send per connected link
broadcast(m, data, e) == SendEach(m, data, getConnectedPeers(e))

\* a sendToPeer that sends on every connected link
sendToPeerOnEveryLink(m, peerId, data, e) ==
  IF peerId \in getConnectedPeers(e) THEN SendEach(m, data, getConnectedPeers(e)) ELSE m

sendToPeer(m, peerId, data, e) ==
  IF peerId \in getConnectedPeers(e) THEN SendEach(m, data, {peerId}) ELSE m

broadcastGameState(m, e) ==
  IF ~HasState(m.gameState) THEN m
  ELSE broadcast(m, [type |-> "game-state", state |-> m.gameState], e)

\* setGameState that evicts when the history reaches the limit
setGameStateShiftAtLimit(m, newState, e) ==
  LET pushed == IF HasState(m.gameState)
                THEN Append(m.stateHistory,
                            [state |-> m.gameState, timestamp |-> e.now])
                ELSE m.stateHistory
      hist == IF Len(pushed) >= HistoryLimit THEN Tail(pushed) ELSE pushed
      m1 == notifyStateListeners(
              [m EXCEPT !.stateHistory = hist, !.gameState = newState])
  IN IF e.kind = "p2p" THEN [m1 EXCEPT !.threw = TRUE]
     ELSE IF e.kind = "mesh" /\ e.connected # {} THEN broadcastGameState(m1, e)
     ELSE m1

setGameState(m, newState, e) ==
  LET pushed == IF HasState(m.gameState)
                THEN Append(m.stateHistory,
                            [state |-> m.gameState, timestamp |-> e.now])
                ELSE m.stateHistory
      hist == IF Len(pushed) > HistoryLimit THEN Tail(pushed) ELSE pushed
      m1 == notifyStateListeners(
              [m EXCEPT !.stateHistory = hist, !.gameState = newState])
  IN IF e.kind = "p2p" THEN [m1 EXCEPT !.threw = TRUE]
     ELSE IF e.kind = "mesh" /\ e.connected # {} THEN broadcastGameState(m1, e)
     ELSE m1

\* a processAction that hands the handlers the state with its version as is
processActionKeepingVersion(m, action, e, rnd) ==
  LET caught(m1) == IF m1.threw THEN [m1 EXCEPT !.threw = FALSE, !.ok = FALSE]
                    ELSE [m1 EXCEPT !.ok = TRUE]
      handled(r) == IF ~r.ok THEN [m EXCEPT !.ok = FALSE]
                    ELSE caught(setGameState(m, r.state, e))
  IN IF ~HasState(m.gameState) THEN [m EXCEPT !.threw = TRUE, !.ok = FALSE]
     ELSE handled(Handle(m.gameState, action, rnd))

processAction(m, action, e, rnd) ==
  LET caught(m1) == IF m1.threw THEN [m1 EXCEPT !.threw = FALSE, !.ok = FALSE]
                    ELSE [m1 EXCEPT !.ok = TRUE]
      handled(r) == IF ~r.ok THEN [m EXCEPT !.ok = FALSE]
                    ELSE caught(setGameState(m, r.state, e))
  IN IF ~HasState(m.gameState) THEN [m EXCEPT !.threw = TRUE, !.ok = FALSE]
     ELSE handled(Handle([m.gameState EXCEPT !.version = @ + 1], action, rnd))

\* SinglePlayerGameStateManager.processCreateToken: the fields of tokenData
\* are spread after the id, so an id in tokenData replaces the uuid
SinglePlayerProcessCreateToken(state, action, rnd) ==
  LET pi == IndexOfPlayer(state, action.payload.playerId)
      id == IF action.payload.tokenData.id # NoId
            THEN action.payload.tokenData.id ELSE rnd.uuid
  IN IF pi = 0 THEN Fail(state)
     ELSE Done([state EXCEPT
            !.players[pi].battlefield =
               Append(@, [id |-> id, isToken |-> TRUE,
                          counters |-> [t \in CounterTypes |-> 0]])])

\* the switch of SinglePlayerGameStateManager.processAction: the handlers of
\* GameStateManager but for create-token, and no case for shuffle-library
\* and move-to-library
SinglePlayerHandle(state, action, rnd) ==
  CASE action.type = "create-token" ->
         SinglePlayerProcessCreateToken(state, action, rnd)
    [] action.type \in {"shuffle-library", "move-to-library"} -> Fail(state)
    [] OTHER -> Handle(state, action, rnd)

\* SinglePlayerGameStateManager.setGameState: history and replacement only
SinglePlayerSetGameState(m, newState, e) ==
  LET pushed == IF HasState(m.gameState)
                THEN Append(m.stateHistory,
                            [state |-> m.gameState, timestamp |-> e.now])
                ELSE m.stateHistory
  IN [m EXCEPT !.stateHistory = IF Len(pushed) > HistoryLimit
                                THEN Tail(pushed) ELSE pushed,
               !.gameState = newState]

SinglePlayerProcessAction(m, action, e, rnd) ==
  LET handled(r) == IF ~r.ok THEN [m EXCEPT !.ok = FALSE]
                    ELSE [SinglePlayerSetGameState(m, r.state, e) EXCEPT !.ok = TRUE]
  IN IF ~HasState(m.gameState) THEN [m EXCEPT !.threw = TRUE, !.ok = FALSE]
     ELSE handled(SinglePlayerHandle([m.gameState EXCEPT !.version = @ + 1],
                                     action, rnd))

IndexOfLog(log, actionId) ==
  IF \E i \in 1..Len(log) : log[i].action.id = actionId
  THEN CHOOSE i \in 1..Len(log) :
         /\ log[i].action.id = actionId
         /\ \A j \in 1..(i - 1) : log[j].action.id # actionId
  ELSE 0

\* stateHistory.findIndex(h => h.timestamp > appliedAt), 1-based, 0 when none
IndexOfLaterSnapshot(hist, appliedAt) ==
  IF \E i \in 1..Len(hist) : hist[i].timestamp > appliedAt
  THEN CHOOSE i \in 1..Len(hist) :
         /\ hist[i].timestamp > appliedAt
         /\ \A j \in 1..(i - 1) : ~(hist[j].timestamp > appliedAt)
  ELSE 0

RECURSIVE Replay(_, _, _, _)
Replay(m, i, e, rnd) ==
  IF i > Len(m.actionLog) THEN m
  ELSE Replay(processAction(m, m.actionLog[i].action, e, rnd), i + 1, e, rnd)

\* a rollback that drops the log entry and re-applies the later actions even
\* when it found no snapshot to restore
rollbackActionWithoutSnapshot(m, actionId, e, rnd) ==
  LET replayFrom(m1, actionIndex) ==
        IF m1.threw THEN m1
        ELSE Replay([m1 EXCEPT !.actionLog = RemoveAt(@, actionIndex)],
                    actionIndex, e, rnd)
      restore(later, actionIndex) ==
        IF later >= 2
        THEN replayFrom(setGameState(m, m.stateHistory[later - 1].state, e),
                        actionIndex)
        ELSE replayFrom(m, actionIndex)
      found(actionIndex) ==
        IF actionIndex = 0 THEN m
        ELSE restore(IndexOfLaterSnapshot(m.stateHistory,
                                          m.actionLog[actionIndex].appliedAt),
                     actionIndex)
  IN found(IndexOfLog(m.actionLog, actionId))

rollbackAction(m, actionId, e, rnd) ==
  LET replayFrom(m1, actionIndex) ==
        IF m1.threw THEN m1
        ELSE Replay([m1 EXCEPT !.actionLog = RemoveAt(@, actionIndex)],
                    actionIndex, e, rnd)
      restore(later, actionIndex) ==
        IF later >= 2
        THEN replayFrom(setGameState(m, m.stateHistory[later - 1].state, e),
                        actionIndex)
        ELSE m
      found(actionIndex) ==
        IF actionIndex = 0 THEN m
        ELSE restore(IndexOfLaterSnapshot(m.stateHistory,
                                          m.actionLog[actionIndex].appliedAt),
                     actionIndex)
  IN found(IndexOfLog(m.actionLog, actionId))

DeletePending(m, actionId) ==
  [m EXCEPT !.pendingActions =
     [x \in (DOMAIN m.pendingActions) \ {actionId} |-> m.pendingActions[x]]]

\* cleanupPendingActions that also drops the log entries of what it sweeps
cleanupPendingActionsAndLog(m, e) ==
  LET old == {y \in DOMAIN m.pendingActions :
                e.now - m.pendingActions[y].timestamp > PendingTTL}
      kept == {i \in 1..Len(m.actionLog) : m.actionLog[i].action.id \notin old}
      Pick(log) == [k \in 1..Cardinality(kept) |->
                      log[CHOOSE i \in kept :
                            Cardinality({j \in kept : j < i}) = k - 1]]
  IN [m EXCEPT !.pendingActions =
                  [x \in (DOMAIN m.pendingActions) \ old |-> m.pendingActions[x]],
               !.actionLog = Pick(m.actionLog)]

cleanupPendingActions(m, e) ==
  [m EXCEPT !.pendingActions =
     [x \in {y \in DOMAIN m.pendingActions :
               ~(e.now - m.pendingActions[y].timestamp > PendingTTL)}
        |-> m.pendingActions[x]]]

\* a threshold that leaves the local peer out of the players counted
ThresholdReachedWithoutSelf(totalVotes, totalPlayers) ==
  2 * totalVotes >= totalPlayers - 1

\* totalVotes >= totalPlayers * consensusThreshold, the threshold being 0.5
ThresholdReached(totalVotes, totalPlayers) == 2 * totalVotes >= totalPlayers

\* a tally that commits the state once more when it approves
checkActionConsensusRecommitting(m, actionId, e, rnd) ==
  LET swept(m1) == IF m1.threw THEN m1 ELSE cleanupPendingActions(m1, e)
      rolledBack(r) == IF r.threw THEN r ELSE DeletePending(r, actionId)
      decided(totalVotes, approvedVotes) ==
        IF ThresholdReached(totalVotes, Cardinality(getConnectedPeers(e)) + 1)
        THEN IF approvedVotes > totalVotes - approvedVotes
             THEN DeletePending(setGameState(m, m.gameState, e), actionId)
             ELSE rolledBack(rollbackAction(m, actionId, e, rnd))
        ELSE m
      counted(votes) ==
        decided(Cardinality(DOMAIN votes),
                Cardinality({p \in DOMAIN votes : votes[p]}))
  IN IF actionId \notin DOMAIN m.pendingActions THEN m
     ELSE swept(counted(m.pendingActions[actionId].votes))

checkActionConsensus(m, actionId, e, rnd) ==
  LET swept(m1) == IF m1.threw THEN m1 ELSE cleanupPendingActions(m1, e)
      rolledBack(r) == IF r.threw THEN r ELSE DeletePending(r, actionId)
      decided(totalVotes, approvedVotes) ==
        IF ThresholdReached(totalVotes, Cardinality(getConnectedPeers(e)) + 1)
        THEN IF approvedVotes > totalVotes - approvedVotes
             THEN DeletePending(m, actionId)
             ELSE rolledBack(rollbackAction(m, actionId, e, rnd))
        ELSE m
      counted(votes) ==
        decided(Cardinality(DOMAIN votes),
                Cardinality({p \in DOMAIN votes : votes[p]}))
  IN IF actionId \notin DOMAIN m.pendingActions THEN m
     ELSE swept(counted(m.pendingActions[actionId].votes))

\* an addVoteForAction that counts a peer's repeated vote as one more vote
addVoteForActionCountingAgain(m, actionId, peerId, approved, e, rnd) ==
  IF actionId \notin DOMAIN m.pendingActions THEN m
  ELSE LET old == m.pendingActions[actionId].votes
           key == IF peerId \in DOMAIN old
                  THEN peerId + 10 * Cardinality(DOMAIN old) ELSE peerId
           votes == [p \in (DOMAIN old) \cup {key} |->
                       IF p = key THEN approved ELSE old[p]]
       IN checkActionConsensus(
            [m EXCEPT !.pendingActions[actionId].votes = votes], actionId, e, rnd)

\* an addVoteForAction that keeps the vote on an action that is not pending
addVoteForActionKeepingEarly(m, actionId, peerId, approved, e, rnd) ==
  LET old == IF actionId \in DOMAIN m.pendingActions
             THEN m.pendingActions[actionId]
             ELSE [action |-> [id |-> actionId, type |-> "", payload |-> BasePayload],
                   votes |-> <<>>,
                   timestamp |-> e.now]
      votes == [p \in (DOMAIN old.votes) \cup {peerId} |->
                  IF p = peerId THEN approved ELSE old.votes[p]]
      kept == [x \in (DOMAIN m.pendingActions) \cup {actionId} |->
                 IF x = actionId THEN [old EXCEPT !.votes = votes]
                 ELSE m.pendingActions[x]]
  IN checkActionConsensus([m EXCEPT !.pendingActions = kept], actionId, e, rnd)

addVoteForAction(m, actionId, peerId, approved, e, rnd) ==
  IF actionId \notin DOMAIN m.pendingActions THEN m
  ELSE LET old == m.pendingActions[actionId].votes
           votes == [p \in (DOMAIN old) \cup {peerId} |->
                       IF p = peerId THEN approved ELSE old[p]]
       IN checkActionConsensus(
            [m EXCEPT !.pendingActions[actionId].votes = votes], actionId, e, rnd)

addPendingAction(m, action, e, rnd) ==
  LET entry == [action |-> action, votes |-> <<>>, timestamp |-> e.now]
      m1 == [m EXCEPT !.pendingActions =
               [x \in (DOMAIN m.pendingActions) \cup {action.id} |->
                  IF x = action.id THEN entry ELSE m.pendingActions[x]]]
      timed(m2) ==
        IF m2.threw THEN m2
        ELSE [m2 EXCEPT !.timers =
                @ \cup {[id |-> action.id, due |-> e.now + ConsensusDelay]}]
  IN timed(addVoteForAction(m1, action.id, e.self, TRUE, e, rnd))

\* lag: the milliseconds Date.now() advances between the log entry (line 109)
\* and the commit inside processAction (line 59)
applyAction(m, action, e, lag, rnd) ==
  LET e2 == [e EXCEPT !.now = @ + lag]
      returned(m4) == [m4 EXCEPT !.ret = TRUE]
      processed(m2) ==
        IF m2.ok
        THEN returned(addPendingAction(
               broadcast(m2, [type |-> "game-action", action |-> action], e2),
               action, e2, rnd))
        ELSE [m2 EXCEPT !.ret = FALSE]
  IN IF ~HasState(m.gameState) THEN [m EXCEPT !.ret = FALSE]
     ELSE processed(processAction(
            [m EXCEPT !.actionLog = Append(@, [action |-> action, appliedAt |-> e.now])],
            action, e2, rnd))

\* handleGameStateUpdate with >= in the place of >
handleGameStateUpdateOrEqual(m, state, fromPeerId, e) ==
  IF ~HasState(m.gameState) \/ state.version >= m.gameState.version
  THEN setGameState(m, state, e)
  ELSE m

handleGameStateUpdate(m, state, fromPeerId, e) ==
  IF ~HasState(m.gameState) \/ state.version > m.gameState.version
  THEN setGameState(m, state, e)
  ELSE m

handlePeerAction(m, action, fromPeerId, e, rnd) ==
  LET vote(approved) ==
        [type |-> "action-vote", actionId |-> action.id, approved |-> approved]
      voted(m3) == IF m3.threw THEN m3 ELSE broadcast(m3, vote(TRUE), e)
      pended(m2) ==
        IF m2.threw THEN m2
        ELSE voted(addVoteForAction(m2, action.id, fromPeerId, TRUE, e, rnd))
      processed(m1) ==
        IF m1.threw THEN m1
        ELSE IF m1.ok THEN pended(addPendingAction(m1, action, e, rnd))
        ELSE broadcast(m1, vote(FALSE), e)
  IN IF action.id \in DOMAIN m.pendingActions
     THEN addVoteForAction(m, action.id, fromPeerId, TRUE, e, rnd)
     ELSE processed(processAction(m, action, e, rnd))

handleActionVote(m, actionId, fromPeerId, approved, e, rnd) ==
  addVoteForAction(m, actionId, fromPeerId, approved, e, rnd)

\* sha256(JSON.stringify(hashableState)): the digest is modelled by the
\* structure it is computed from
calculateStateHash(state) ==
  [version |-> state.version, activePlayer |-> state.activePlayer,
   phase |-> state.phase, turn |-> state.turn,
   players |-> [i \in 1..Len(state.players) |->
      LET p == state.players[i]
      IN [id |-> p.id, life |-> p.life, handCount |-> Len(p.hand),
          libraryCount |-> Len(p.library), graveyardCount |-> Len(p.graveyard),
          exileCount |-> Len(p.exile),
          battlefield |-> [k \in 1..Len(p.battlefield) |-> p.battlefield[k].id]]]]

\* handleStateHashCheck with === in the place of !==
handleStateHashCheckOnEqual(m, stateHash, fromPeerId, e) ==
  IF ~HasState(m.gameState) THEN m
  ELSE IF calculateStateHash(m.gameState) = stateHash
       THEN sendToPeer(m, fromPeerId, [type |-> "request-full-state"], e)
       ELSE m

handleStateHashCheck(m, stateHash, fromPeerId, e) ==
  IF ~HasState(m.gameState) THEN m
  ELSE IF calculateStateHash(m.gameState) # stateHash
       THEN sendToPeer(m, fromPeerId, [type |-> "request-full-state"], e)
       ELSE m

sendFullState(m, peerId, e) ==
  IF ~HasState(m.gameState) THEN m
  ELSE sendToPeer(m, peerId, [type |-> "game-state", state |-> m.gameState], e)

\* the data listener: P2PConnectionManager.notifyDataListeners catches what
\* the handler throws
handlePeerData(m, data, fromPeerId, e, rnd) ==
  CASE data.type = "game-state" ->
         handleGameStateUpdate(m, data.state, fromPeerId, e)
    [] data.type = "game-action" ->
         handlePeerAction(m, data.action, fromPeerId, e, rnd)
    [] data.type = "action-vote" ->
         handleActionVote(m, data.actionId, fromPeerId, data.approved, e, rnd)
    [] data.type = "state-hash-check" ->
         handleStateHashCheck(m, data.stateHash, fromPeerId, e)
    [] data.type = "request-full-state" ->
         sendFullState(m, fromPeerId, e)
    [] OTHER -> m

\* the setInterval callback of startStateConsistencyChecks
consistencyCheck(m, e) ==
  IF ~HasState(m.gameState) THEN m
  ELSE broadcast(m, [type |-> "state-hash-check",
                     stateHash |-> calculateStateHash(m.gameState)], e)

\* setInterval hands out a new handle, which replaces the one kept
startStateConsistencyChecks(m) ==
  [m EXCEPT !.handles = @ + 1, !.intervals = @ \cup {m.handles + 1},
            !.consistencyCheckInterval = m.handles + 1]

\* clearInterval of the handle kept
stopStateConsistencyChecks(m) ==
  IF m.consistencyCheckInterval # 0
  THEN [m EXCEPT !.intervals = @ \ {m.consistencyCheckInterval}]
  ELSE m

cleanup(m) == [stopStateConsistencyChecks(m) EXCEPT !.cleaned = TRUE]

\* a connection handler that answers peer-connected with a broadcast
handleConnectionEventBroadcasting(m, event, data, e) ==
  IF event = "peer-connected" /\ HasState(m.gameState)
  THEN broadcastGameState(m, e)
  ELSE m

handleConnectionEvent(m, event, data, e) ==
  IF event = "peer-connected" /\ HasState(m.gameState)
  THEN sendFullState(m, data, e)
  ELSE m

initializeGameState(m, players, e) ==
  LET initialState ==
        [version |-> 1, activePlayer |-> players[1].id, phase |-> "main1",
         turn |-> 1,
         players |-> [i \in 1..Len(players) |->
            [id |-> players[i].id, life |-> StartLife, library |-> players[i].deck,
             hand |-> <<>>, battlefield |-> <<>>, graveyard |-> <<>>,
             exile |-> <<>>]]]
      m1 == setGameState(m, initialState, e)
  IN IF m1.threw THEN m1 ELSE broadcastGameState(m1, e)


(***************************************************************************)
(* One coordinator in its mesh.  The local peer is Self; the other         *)
(* participants are Remote (a game has 2 to 4 players).  What the remote   *)
(* peers send is the input of the local handlers and is drawn from small   *)
(* sets.  Links connect in the order of the peer ids and close in the      *)
(* reverse order: remote peers differ in nothing but their id.             *)
(***************************************************************************)
Self == 1
Remote == {2, 3, 4}

Roster == <<[id |-> 1, deck |-> <<Card(1), Card(2)>>],
            [id |-> 2, deck |-> <<Card(3)>>]>>

Act(id, type, payload) == [id |-> id, type |-> type, payload |-> payload]

\* what the local user proposes (applyAction)
LocalTemplates ==
  { [type |-> "draw-card", payload |-> [BasePayload EXCEPT !.playerId = 1]],
    [type |-> "play-card", payload |-> [BasePayload EXCEPT !.playerId = 1, !.cardId = 1]] }

\* what remote peers propose (game-action messages), by action id
PeerActionIds == {101, 102}

\* a type that processAction's switch has no case for, and the id of the
\* action of that type a remote peer proposes
UnknownType == "concede"
UnknownId == 103

UnknownTemplate == [type |-> UnknownType, payload |-> [BasePayload EXCEPT !.playerId = 1]]

PeerAction(id) ==
  IF id = 101
  THEN Act(id, "change-phase", [BasePayload EXCEPT !.phase = "main2"])
  ELSE IF id = UnknownId
  THEN Act(id, UnknownType, [BasePayload EXCEPT !.playerId = 2])
  ELSE Act(id, "play-card", [BasePayload EXCEPT !.playerId = 1, !.cardId = 1])

InitialState ==
  initializeGameState(NewManager, Roster,
     [now |-> 0, connected |-> {}, kind |-> "single", self |-> Self]).gameState

\* full states a remote peer may send in a game-state message
PeerStates ==
  { [InitialState EXCEPT !.version = PeerVersion, !.phase = "combat"] }

\* new P2PConnectionManager(userId, signalServer): no link yet.  peers maps
\* a peer id to its link; made lists the links created, each with the peer
\* it leads to, its role, whether it is open (not closed or destroyed),
\* whether it is connected and what was sent on it.  The other fields tell
\* of the call made last: its name and argument, what it told the
\* connection listeners and what it returned; sends counts the messages
\* handed to broadcast and sendToPeer
NewConnectionManager ==
  [peers |-> <<>>, made |-> <<>>, notified |-> <<>>, op |-> "", arg |-> 0,
   sends |-> 0, successCount |-> 0, sent |-> FALSE]

VARIABLES
  kind,       \* the class of the mesh manager handed to the constructor
  now,        \* Date.now()
  ticks,      \* clock steps taken
  connected,  \* remote peers whose link is connected
  c,          \* the coordinator
  steps,      \* actions handed to the processor so far; uuidv4() hands
              \* out steps + 1 as the next local action id
  last,       \* the handler that ran last, its input and its outcome
  trail,      \* the actions handed to the processor by applyAction or
              \* handlePeerAction since the state was last replaced,
              \* each with the state it met, whether it changed the state
              \* (ok), whether the handler registered it as pending
              \* (registered) and whether a tally has rejected it
  watch,      \* the action processed last: its id, the peers whose latest
              \* vote on it is a reject, and whether the links are still
              \* those of the time it was processed
  peers,      \* the coordinators of a closed mesh of two peers (SpecSync)
  net,        \* per directed link of that mesh, the messages in flight
  mgr,        \* the P2PConnectionManager: its peers map and the links
              \* (SimplePeer objects) created so far
  round       \* the proposals made in that mesh so far, the
              \* reconciliation cycle under way (the peers whose interval
              \* has fired and the two states the cycle started from) and
              \* the step taken last (odd alternates with every step)

vars == <<kind, now, ticks, connected, c, steps, last, trail, watch,
          peers, net, round, mgr>>

Peers == {1, 2}
Links == {<<1, 2>>, <<2, 1>>}
NoRound ==
  [n |-> 0, checked |-> {}, from |-> <<NoState, NoState>>,
   did |-> [op |-> "", at |-> <<0, 0>>, odd |-> FALSE, stale |-> FALSE]]

Env == [now |-> now, connected |-> connected, kind |-> kind, self |-> Self]

\* the branch checkActionConsensus takes for an entry with these votes
ConsensusOutcome(votes, e) ==
  LET totalVotes == Cardinality(DOMAIN votes)
      approvedVotes == Cardinality({p \in DOMAIN votes : votes[p]})
  IN IF ~ThresholdReached(totalVotes, Cardinality(getConnectedPeers(e)) + 1)
     THEN "open"
     ELSE IF approvedVotes > totalVotes - approvedVotes THEN "approved"
     ELSE "rejected"

VotesWith(m, actionId, peerId, approved) ==
  LET old == m.pendingActions[actionId].votes
  IN [p \in (DOMAIN old) \cup {peerId} |-> IF p = peerId THEN approved ELSE old[p]]

\* the outcome of recording peerId's vote on actionId in m
VoteOutcome(m, actionId, peerId, approved, e) ==
  IF actionId \notin DOMAIN m.pendingActions THEN "ignored"
  ELSE ConsensusOutcome(VotesWith(m, actionId, peerId, approved), e)

\* rollbackAction(actionId) restores a snapshot
Restores(m, actionId) ==
  LET i == IndexOfLog(m.actionLog, actionId)
  IN i # 0 /\ IndexOfLaterSnapshot(m.stateHistory, m.actionLog[i].appliedAt) >= 2

TrailIds == {trail[i].action.id : i \in 1..Len(trail)}
AppliedIds ==
  {trail[i].action.id : i \in {j \in 1..Len(trail) : trail[j].ok /\ trail[j].registered}}

IndexOfTrail(id) ==
  IF id \in TrailIds
  THEN CHOOSE i \in 1..Len(trail) :
         /\ trail[i].action.id = id
         /\ \A j \in 1..(i - 1) : trail[j].action.id # id
  ELSE 0

\* the Action Processor as a function of the state alone
Apply(state, action) ==
  LET r == Handle([state EXCEPT !.version = @ + 1], action, NoRnd)
  IN IF r.ok THEN r.state ELSE state

\* the actions of the trail entries es applied in order on top of cur
RECURSIVE Reapply(_, _)
Reapply(es, cur) ==
  IF es = <<>> THEN cur ELSE Reapply(Tail(es), Apply(cur, es[1].action))

\* the state had the action of trail entry i never happened
Without(i) == Reapply(SubSeq(trail, i + 1, Len(trail)), trail[i].before)

NoneRejected == \A j \in 1..Len(trail) : ~trail[j].rejected

NoLast ==
  [op |-> "new", id |-> 0, approved |-> FALSE, ret |-> FALSE,
   tally |-> "none", rejects |-> 0, restored |-> FALSE, changed |-> FALSE,
   known |-> FALSE, valid |-> FALSE, first |-> FALSE, origin |-> "",
   expect |-> NoState, swept |-> {}, total |-> 0]

\* swept: the entries other than the step's own that left the pending set
Note(op, id, m2) ==
  [NoLast EXCEPT !.op = op, !.id = id, !.ret = m2.ret,
     !.changed = (m2.gameState # c.gameState),
     !.swept = (DOMAIN c.pendingActions \ DOMAIN m2.pendingActions) \ {id}]

\* the tally of this step on action id, as last records it; total is the
\* number of votes the tally counted
Tallied(note, id, tally, votes) ==
  LET i == IndexOfTrail(id)
  IN IF tally = "rejected" /\ i # 0
     THEN [note EXCEPT !.tally = tally, !.restored = Restores(c, id),
             !.total = Cardinality(DOMAIN votes),
             !.rejects = Cardinality({p \in DOMAIN votes : ~votes[p]}),
             !.origin = trail[i].origin, !.first = NoneRejected,
             !.expect = Without(i)]
     ELSE [note EXCEPT !.tally = tally, !.total = Cardinality(DOMAIN votes),
             !.origin = IF i # 0 THEN trail[i].origin ELSE ""]

TrailAfter(id, tally) ==
  LET i == IndexOfTrail(id)
  IN IF tally = "rejected" /\ i # 0 THEN [trail EXCEPT ![i].rejected = TRUE]
     ELSE trail

NoWatch == [id |-> 0, from |-> 0, rejecters |-> {}, stable |-> FALSE]

Init ==
  /\ kind \in Kinds
  /\ now = 0
  /\ ticks = 0
  /\ connected = {}
  /\ c = NewManager
  /\ steps = 0
  /\ last = NoLast
  /\ trail = <<>>
  /\ watch = NoWatch
  /\ peers = [i \in Peers |-> NewManager]
  /\ net = [l \in Links |-> <<>>]
  /\ round = NoRound
  /\ mgr = NewConnectionManager

Tick ==
  /\ ticks < MaxTicks
  /\ now' = now + 1
  /\ ticks' = ticks + 1
  /\ UNCHANGED <<kind, connected, c, steps, last, trail, watch, peers, net, round, mgr>>

\* the link to p connects: 'connect' event -> handleConnectionEvent
PeerConnected(p) ==
  /\ kind # "single"
  /\ p \notin connected
  /\ \A q \in Remote \ connected : p <= q
  /\ connected' = connected \cup {p}
  /\ LET done(m2) == c' = m2 /\ last' = Note("peer-connected", p, m2)
     IN done(handleConnectionEvent(Enter(c), "peer-connected", p,
                                   [Env EXCEPT !.connected = connected \cup {p}]))
  /\ watch' = [watch EXCEPT !.stable = FALSE]
  /\ UNCHANGED <<kind, now, ticks, steps, trail, peers, net, round, mgr>>

\* the link to p closes: it is removed from the peer map
PeerDisconnected(p) ==
  /\ p \in connected
  /\ \A q \in connected : q <= p
  /\ connected' = connected \ {p}
  /\ LET done(m2) == c' = m2 /\ last' = Note("peer-disconnected", p, m2)
     IN done(handleConnectionEvent(Enter(c), "peer-disconnected", p,
                                   [Env EXCEPT !.connected = connected \ {p}]))
  /\ watch' = [watch EXCEPT !.stable = FALSE]
  /\ UNCHANGED <<kind, now, ticks, steps, trail, peers, net, round, mgr>>

InitializeGame ==
  /\ ~HasState(c.gameState)
  /\ LET done(m2) == c' = m2 /\ last' = Note("initializeGameState", 0, m2)
     IN done(initializeGameState(Enter(c), Roster, Env))
  /\ UNCHANGED <<kind, now, ticks, connected, steps, trail, watch, peers, net, round, mgr>>

\* the user proposes an action; uuidv4() hands out a fresh id.  lag is the
\* time that passes between the log entry and the commit.
LocalActionWithin(max, tpl, lag) ==
  /\ steps < max
  /\ ticks + lag <= MaxTicks
  /\ LET id == steps + 1
         action == Act(id, tpl.type, tpl.payload)
         has == HasState(c.gameState)
         noted(note, m2, valid) ==
           [note EXCEPT
              !.origin = "local", !.known = has, !.valid = valid,
              !.tally = IF m2.ret /\ id \notin DOMAIN m2.pendingActions
                        THEN "approved" ELSE "none"]
         done(m2) ==
           /\ c' = m2
           /\ last' = noted(Note("applyAction", id, m2), m2,
                            has /\ Apply(c.gameState, action) # c.gameState)
           /\ trail' = IF has
                       THEN Append(trail, [action |-> action, origin |-> "local",
                                           before |-> c.gameState, rejected |-> FALSE,
                                           ok |-> (m2.gameState # c.gameState),
                                           registered |-> m2.ret])
                       ELSE trail
     IN /\ done(applyAction(Enter(c), action, Env, lag, NoRnd))
        /\ steps' = IF has THEN id ELSE steps
        /\ watch' = IF has
                    THEN [id |-> id, from |-> Self, rejecters |-> {}, stable |-> TRUE]
                    ELSE watch
  /\ now' = now + lag
  /\ ticks' = ticks + lag
  /\ UNCHANGED <<kind, connected, peers, net, round, mgr>>

LocalAction(tpl, lag) == LocalActionWithin(MaxActions, tpl, lag)

\* a game-action message from p is delivered: an action a remote peer
\* proposed, for the first time or once more
DeliverAction(p, id) ==
  /\ p \in connected
  /\ id \in PeerActionIds \cup {UnknownId} \cup DOMAIN c.pendingActions
  /\ steps < MaxActions \/ id \in DOMAIN c.pendingActions
  /\ LET action == PeerAction(id)
         isPending == id \in DOMAIN c.pendingActions
         fresh == ~isPending /\ HasState(c.gameState)
         tallied(tally, note) ==
           /\ last' = Tallied(note, id, tally,
                              IF isPending THEN VotesWith(c, id, p, TRUE) ELSE <<>>)
           /\ trail' = IF isPending THEN TrailAfter(id, tally)
                       ELSE IF fresh
                       THEN Append(trail, [action |-> action, origin |-> "peer",
                                           before |-> c.gameState, rejected |-> FALSE,
                                           ok |-> note.changed,
                                           registered |-> note.ret])
                       ELSE trail
         done(m2) ==
           /\ c' = m2
           /\ tallied(IF isPending THEN VoteOutcome(c, id, p, TRUE, Env)
                      ELSE IF m2.ok /\ id \notin DOMAIN m2.pendingActions
                           THEN "approved" ELSE "none",
                      [Note("game-action", id, m2) EXCEPT
                         !.known = (id \in AppliedIds), !.ret = m2.ok])
     IN /\ done(handlePeerAction(Enter(c), action, p, Env, NoRnd))
        /\ steps' = IF fresh THEN steps + 1 ELSE steps
        /\ watch' = IF fresh
                    THEN [id |-> id, from |-> p, rejecters |-> {}, stable |-> TRUE]
                    ELSE watch
  /\ UNCHANGED <<kind, now, ticks, connected, peers, net, round, mgr>>

\* an action-vote message from p is delivered: a vote on a pending action,
\* or a reject of the action processed last that arrives after its entry is
\* gone (a peer sends one vote on an action, its sender none)
DeliverVote(p, id, approved) ==
  /\ p \in connected
  /\ id \in TrailIds
  /\ \/ id \in DOMAIN c.pendingActions
     \/ id = watch.id /\ ~approved /\ p \notin watch.rejecters /\ p # watch.from
  /\ LET tally == VoteOutcome(c, id, p, approved, Env)
         done(m2) ==
           /\ c' = m2
           /\ last' = Tallied([Note("action-vote", id, m2) EXCEPT !.approved = approved],
                              id, tally,
                              IF tally = "ignored" THEN <<>>
                              ELSE VotesWith(c, id, p, approved))
     IN /\ done(handleActionVote(Enter(c), id, p, approved, Env, NoRnd))
        /\ trail' = TrailAfter(id, tally)
  /\ watch' = IF id # watch.id THEN watch
              ELSE [watch EXCEPT !.rejecters =
                      IF approved THEN @ \ {p} ELSE @ \cup {p}]
  /\ UNCHANGED <<kind, now, ticks, connected, steps, peers, net, round, mgr>>

\* the setTimeout callback of addPendingAction runs for an entry that is
\* still pending, ConsensusDelay after it was registered at the earliest
\* (for an entry no longer pending the callback returns at once)
ConsensusTimer(id) ==
  /\ id \in DOMAIN c.pendingActions
  /\ \E t \in c.timers : t.id = id
  /\ LET t == CHOOSE x \in c.timers :
                /\ x.id = id
                /\ \A u \in c.timers : u.id = id => x.due <= u.due
         at == IF now > t.due THEN now ELSE t.due
         e == [Env EXCEPT !.now = at]
         tally == ConsensusOutcome(c.pendingActions[id].votes, e)
         done(m2) ==
           /\ c' = m2
           /\ last' = Tallied(Note("consensus-timer", id, m2), id, tally,
                              c.pendingActions[id].votes)
     IN /\ now' = at
        /\ done(checkActionConsensus([Enter(c) EXCEPT !.timers = @ \ {t}],
                                     id, e, NoRnd))
        /\ trail' = TrailAfter(id, tally)
  /\ UNCHANGED <<kind, ticks, connected, steps, watch, peers, net, round, mgr>>

\* a game-state message is delivered (the handler does not read its sender)
DeliverState(state) ==
  /\ connected # {}
  /\ LET done(m2) ==
           /\ c' = m2
           /\ last' = [Note("game-state", state.version, m2) EXCEPT
                         !.known = HasState(c.gameState)]
           /\ trail' = IF m2.gameState # c.gameState THEN <<>> ELSE trail
           /\ watch' = IF m2.gameState # c.gameState THEN NoWatch ELSE watch
     IN done(handleGameStateUpdate(Enter(c), state, 0, Env))
  /\ UNCHANGED <<kind, now, ticks, connected, steps, peers, net, round, mgr>>

Next ==
  \/ Tick
  \/ \E p \in Remote : PeerConnected(p)
  \/ \E p \in Remote : PeerDisconnected(p)
  \/ InitializeGame
  \/ \E tpl \in LocalTemplates, lag \in {0, 1} : LocalAction(tpl, lag)
  \/ \E p \in Remote, id \in PeerActionIds : DeliverAction(p, id)
  \/ \E p \in Remote, id \in PeerActionIds \cup (1..steps), a \in BOOLEAN :
        DeliverVote(p, id, a)
  \/ \E id \in PeerActionIds \cup (1..steps) : ConsensusTimer(id)
  \/ \E s \in PeerStates : DeliverState(s)

Spec == Init /\ [][Next]_vars


(***************************************************************************)
(* A closed mesh of two connected peers.  Both start from the state the    *)
(* host distributed; each proposes actions through applyAction, every      *)
(* message a handler sends travels on the FIFO link to its addressee and   *)
(* is handled there by handlePeerData, and the consistency interval of     *)
(* each peer fires once per reconciliation cycle.  With two peers the      *)
(* proposer's own vote closes every tally at once, so the setTimeout       *)
(* callbacks find no entry; the clock stands still.                        *)
(***************************************************************************)
MaxProposals == 3

SyncEnv(i) == [now |-> 0, connected |-> Peers \ {i}, kind |-> kind, self |-> i]

\* what peer i proposes: the two peers move the game to different phases
SyncAction(i, id) ==
  Act(id, "change-phase",
      [BasePayload EXCEPT !.phase = IF i = 1 THEN "main2" ELSE "combat"])

\* a coordinator that has taken the host's initial state
SyncStart(k) ==
  Enter(handleGameStateUpdate(NewManager, InitialState, 0,
          [now |-> 0, connected |-> {}, kind |-> k, self |-> 0]))

\* the messages a handler of peer i sent, appended to the links
RECURSIVE Post(_, _, _)
Post(n, i, out) ==
  IF out = <<>> THEN n
  ELSE Post([n EXCEPT ![<<i, out[1].to>>] = Append(@, out[1].msg)], i, Tail(out))

Quiescent == \A l \in Links : net[l] = <<>>

InitSync ==
  /\ kind \in {"p2p", "mesh"}
  /\ now = 0
  /\ ticks = 0
  /\ connected = {}
  /\ c = NewManager
  /\ steps = 0
  /\ last = NoLast
  /\ trail = <<>>
  /\ watch = NoWatch
  /\ peers = [i \in Peers |-> SyncStart(kind)]
  /\ net = [l \in Links |-> <<>>]
  /\ round = NoRound
  /\ mgr = NewConnectionManager

\* peer i proposes an action
SyncPropose(i) ==
  /\ round.n < MaxProposals
  /\ LET done(m2) ==
           /\ peers' = [peers EXCEPT ![i] = Enter(m2)]
           /\ net' = Post(net, i, m2.out)
     IN done(applyAction(Enter(peers[i]), SyncAction(i, round.n + 1),
                         SyncEnv(i), 0, NoRnd))
  /\ round' = [NoRound EXCEPT !.n = round.n + 1,
                              !.did = [op |-> "propose", at |-> <<i, i>>,
                                      odd |-> ~round.did.odd,
                                      stale |-> FALSE]]
  /\ UNCHANGED <<kind, now, ticks, connected, c, steps, last, trail, watch, mgr>>

\* the consistency interval of peer i fires: a cycle starts when nothing is
\* in flight, and within a cycle every peer's interval fires once
SyncConsistencyCheck(i) ==
  /\ \/ Quiescent
     \/ round.checked # {} /\ i \notin round.checked
  /\ LET done(m2) ==
           /\ peers' = [peers EXCEPT ![i] = Enter(m2)]
           /\ net' = Post(net, i, m2.out)
     IN done(consistencyCheck(Enter(peers[i]), SyncEnv(i)))
  /\ round' = IF round.checked = {} \/ i \in round.checked
              THEN [round EXCEPT !.checked = {i},
                                 !.from = <<peers[1].gameState, peers[2].gameState>>,
                                 !.did = [op |-> "check", at |-> <<i, i>>,
                                         odd |-> ~round.did.odd,
                                         stale |-> FALSE]]
              ELSE [round EXCEPT !.checked = @ \cup {i},
                                 !.did = [op |-> "check", at |-> <<i, i>>,
                                         odd |-> ~round.did.odd,
                                         stale |-> FALSE]]
  /\ UNCHANGED <<kind, now, ticks, connected, c, steps, last, trail, watch, mgr>>

\* the oldest message on link l is a game-state whose version is not above
\* the addressee's and whose state is not the addressee's
Stale(l) ==
  /\ Head(net[l]).type = "game-state"
  /\ HasState(peers[l[2]].gameState)
  /\ Head(net[l]).state.version <= peers[l[2]].gameState.version
  /\ Head(net[l]).state # peers[l[2]].gameState

\* what round records of a delivery on link l
Delivered(l) ==
  [round EXCEPT !.did = [op |-> "deliver", at |-> l, odd |-> ~round.did.odd,
                         stale |-> Stale(l)]]

\* the oldest message on the link from i to j is handled by j
SyncDeliver(i, j) ==
  /\ net[<<i, j>>] # <<>>
  /\ LET done(m2) ==
           /\ peers' = [peers EXCEPT ![j] = Enter(m2)]
           /\ net' = Post([net EXCEPT ![<<i, j>>] = Tail(@)], j, m2.out)
     IN done(handlePeerData(Enter(peers[j]), Head(net[<<i, j>>]), i,
                            SyncEnv(j), NoRnd))
  /\ round' = Delivered(<<i, j>>)
  /\ UNCHANGED <<kind, now, ticks, connected, c, steps, last, trail, watch, mgr>>

NextSync ==
  \/ \E i \in Peers : SyncPropose(i)
  \/ \E i \in Peers : SyncConsistencyCheck(i)
  \/ \E l \in Links : SyncDeliver(l[1], l[2])

SpecSync == InitSync /\ [][NextSync]_vars

\* the steps of SyncDeliver on link l, told by what round records
Delivery(l) == net[l] # <<>> /\ round' = Delivered(l)

\* every message in flight is delivered, and every interval keeps firing
SpecSyncFair ==
  /\ SpecSync
  /\ \A l \in Links : WF_round(Delivery(l))
  /\ \A i \in Peers : SF_vars(SyncConsistencyCheck(i))


(***************************************************************************)
(* The coordinator over the lifetime of its pending entries.  The clock    *)
(* advances by long stretches during which no handler runs; the setTimeout *)
(* callback of an entry still pending runs when it is due, so no stretch   *)
(* passes over one.                                                        *)
(***************************************************************************)
ElapseSteps == {PendingTTL - ConsensusDelay, PendingTTL + 1}

Elapse(d) ==
  /\ ticks < MaxTicks
  /\ \A t \in c.timers : t.id \notin DOMAIN c.pendingActions
  /\ now' = now + d
  /\ ticks' = ticks + 1
  /\ UNCHANGED <<kind, connected, c, steps, last, trail, watch, peers, net, round, mgr>>

NextTTL ==
  \/ \E d \in ElapseSteps : Elapse(d)
  \/ \E p \in Remote : PeerConnected(p)
  \/ \E p \in Remote : PeerDisconnected(p)
  \/ InitializeGame
  \/ \E tpl \in {t \in LocalTemplates : t.type = "draw-card"} : LocalAction(tpl, 0)
  \/ \E p \in Remote, id \in DOMAIN c.pendingActions, a \in BOOLEAN :
        DeliverVote(p, id, a)
  \/ \E p \in connected, id \in (1..steps) \ DOMAIN c.pendingActions :
        (\A q \in connected : p <= q) /\ DeliverVote(p, id, FALSE)
  \/ \E id \in 1..steps : ConsensusTimer(id)

SpecTTL == Init /\ [][NextTTL]_vars


(***************************************************************************)
(* The Action Processor on three replicas that start from the state of     *)
(* initializeGameState and are handed the same actions: two                *)
(* GameStateManagers (peers[1], peers[2]) and one                          *)
(* SinglePlayerGameStateManager (c).  Each replica makes its own calls to  *)
(* uuidv4() and Math.random(): a uuid is a value no other call returns     *)
(* (Uuid), the draws of Math.random() are independent inputs.  trail       *)
(* records each action with the state replica 1 met.                       *)
(***************************************************************************)
TokenId == 7

Uuid(i, n) == 100 * i + n

ProcEnv(k) == [now |-> 0, connected |-> {}, kind |-> k, self |-> Self]

ProcStart(k) == Enter(initializeGameState(NewManager, Roster, ProcEnv(k)))

\* the actions handed to the replicas
ProcActions ==
  { [type |-> "draw-card", payload |-> [BasePayload EXCEPT !.playerId = 1, !.count = n]] :
       n \in {NoCount} \cup (0..3) }
  \cup
  { [type |-> "create-token",
     payload |-> [BasePayload EXCEPT !.playerId = q, !.tokenData = [id |-> t]]] :
       q \in {1, 2}, t \in {NoId, TokenId} }
  \cup
  { [type |-> "shuffle-library", payload |-> [BasePayload EXCEPT !.playerId = 1]] }

InitProc ==
  /\ kind \in Kinds
  /\ now = 0
  /\ ticks = 0
  /\ connected = {}
  /\ c = Enter(SinglePlayerSetGameState(NewManager, InitialState, ProcEnv("single")))
  /\ steps = 0
  /\ last = NoLast
  /\ trail = <<>>
  /\ watch = NoWatch
  /\ peers = [i \in Peers |-> ProcStart(kind)]
  /\ net = [l \in Links |-> <<>>]
  /\ round = NoRound
  /\ mgr = NewConnectionManager

\* one action is processed by every replica; j1 and j2 are what Math.random()
\* yields on replicas 1 and 2
ProcApply(tpl, j1, j2) ==
  /\ steps < MaxActions
  /\ LET action == Act(steps + 1, tpl.type, tpl.payload)
         rnd(i, j) == [uuid |-> Uuid(i, steps + 1), js |-> <<j>>]
         done(m1, m2, m3) ==
           /\ peers' = [peers EXCEPT ![1] = m1, ![2] = m2]
           /\ c' = m3
           /\ trail' = Append(trail, [action |-> action, origin |-> "local",
                                      before |-> peers[1].gameState,
                                      rejected |-> FALSE,
                                      ok |-> (m1.gameState # peers[1].gameState),
                                      registered |-> FALSE])
     IN done(processAction(Enter(peers[1]), action, ProcEnv(kind), rnd(1, j1)),
             processAction(Enter(peers[2]), action, ProcEnv(kind), rnd(2, j2)),
             SinglePlayerProcessAction(Enter(c), action, ProcEnv("single"), rnd(3, 0)))
  /\ steps' = steps + 1
  /\ UNCHANGED <<kind, now, ticks, connected, last, watch, net, round, mgr>>

NextProc == \E tpl \in ProcActions, j1 \in 0..1, j2 \in 0..1 : ProcApply(tpl, j1, j2)

SpecProc == InitProc /\ [][NextProc]_vars


(***************************************************************************)
(* The state store over a long game: a coordinator without links commits   *)
(* one state after the other, more than the history holds.                 *)
(***************************************************************************)
MaxCommits == 22

\* the user changes player 1's life by 1
HistApply ==
  /\ HasState(c.gameState)
  /\ steps < MaxCommits
  /\ LET action == Act(steps + 1, "update-life",
                       [BasePayload EXCEPT !.playerId = 1, !.delta = 1])
         done(m2) == c' = m2 /\ last' = Note("applyAction", steps + 1, m2)
     IN done(applyAction(Enter(c), action, Env, 0, NoRnd))
  /\ steps' = steps + 1
  /\ UNCHANGED <<kind, now, ticks, connected, trail, watch, peers, net, round, mgr>>

NextHist ==
  \/ Tick
  \/ InitializeGame
  \/ HistApply

SpecHist == Init /\ [][NextHist]_vars


(***************************************************************************)
(* The coordinator in a mesh whose manager answers isConnected(): local    *)
(* actions are proposed as the clock moves, and the votes of the peers on  *)
(* the pending ones arrive.                                                *)
(***************************************************************************)
InitReplay == Init /\ kind = "mesh"

NextReplay ==
  \/ Tick
  \/ \E p \in Remote : PeerConnected(p)
  \/ InitializeGame
  \/ \E tpl \in LocalTemplates : LocalAction(tpl, 0)
  \/ \E p \in Remote, id \in DOMAIN c.pendingActions, a \in BOOLEAN :
        DeliverVote(p, id, a)

SpecReplay == InitReplay /\ [][NextReplay]_vars


(***************************************************************************)
(* The coordinator under every kind of manager, fed actions of handled and *)
(* of unhandled types by the local user and by the peers, a game-action    *)
(* for an id that is still pending included.                               *)
(***************************************************************************)
NextPeer ==
  \/ \E p \in Remote : PeerConnected(p)
  \/ InitializeGame
  \/ \E tpl \in LocalTemplates \cup {UnknownTemplate} : LocalAction(tpl, 0)
  \/ \E p \in Remote,
        id \in PeerActionIds \cup {UnknownId} \cup DOMAIN c.pendingActions :
        DeliverAction(p, id)

SpecPeer == Init /\ [][NextPeer]_vars


(***************************************************************************)
(* The coordinator receiving the state-hash-check messages of its peers:   *)
(* the hash of its own state, of a state that differs from it in what the  *)
(* hash covers, and of one that differs only in what the hash leaves out.  *)
(***************************************************************************)
\* the states whose hashes the peers send: the initial state, the same with
\* the first library in another order, the state after the first draw, and
\* what a peer that went its own way holds
HashStates ==
  { InitialState,
    [InitialState EXCEPT !.players[1].library = <<@[2], @[1]>>],
    Apply(InitialState, Act(1, "draw-card", [BasePayload EXCEPT !.playerId = 1])) }
  \cup PeerStates

\* a state-hash-check message from p is delivered, carrying the hash of
\* state; last.expect keeps the state the hash was taken of
DeliverHash(p, state) ==
  /\ p \in connected
  /\ LET done(m2) ==
           /\ c' = m2
           /\ last' = [Note("state-hash-check", p, m2) EXCEPT !.expect = state]
     IN done(handlePeerData(Enter(c),
                            [type |-> "state-hash-check",
                             stateHash |-> calculateStateHash(state)],
                            p, Env, NoRnd))
  /\ UNCHANGED <<kind, now, ticks, connected, steps, trail, watch, peers, net, round, mgr>>

NextHash ==
  \/ \E p \in Remote : PeerConnected(p)
  \/ InitializeGame
  \/ \E tpl \in LocalTemplates : LocalAction(tpl, 0)
  \/ \E p \in Remote, s \in HashStates : DeliverHash(p, s)

SpecHash == Init /\ [][NextHash]_vars


(***************************************************************************)
(* The coordinator as a receiver whose links deliver in different orders:  *)
(* the votes of other peers on an action may arrive before the game-action *)
(* message that carries it.                                                *)
(***************************************************************************)
\* an action-vote message from p is delivered for an action this peer has
\* not processed yet
DeliverEarlyVote(p, id, approved) ==
  /\ p \in connected
  /\ id \notin TrailIds
  /\ LET done(m2) ==
           /\ c' = m2
           /\ last' = [Note("action-vote", id, m2) EXCEPT
                         !.approved = approved, !.tally = "ignored"]
     IN done(handlePeerData(Enter(c),
                            [type |-> "action-vote", actionId |-> id,
                             approved |-> approved],
                            p, Env, NoRnd))
  /\ UNCHANGED <<kind, now, ticks, connected, steps, trail, watch, peers, net, round, mgr>>

NextEarly ==
  \/ \E p \in Remote : PeerConnected(p)
  \/ InitializeGame
  \/ \E p \in Remote, id \in PeerActionIds, a \in BOOLEAN : DeliverEarlyVote(p, id, a)
  \/ \E p \in Remote, id \in PeerActionIds : DeliverAction(p, id)

SpecEarly == Init /\ [][NextEarly]_vars


(***************************************************************************)
(* The coordinator in a mesh of up to five, where an entry with two votes  *)
(* is still pending: peers vote on the pending entries, change their vote, *)
(* and send the game-action of a pending entry once more.                  *)
(***************************************************************************)
Fifth == 5

NextVotes ==
  \/ \E p \in Remote \cup {Fifth} : PeerConnected(p)
  \/ InitializeGame
  \/ LocalAction([type |-> "draw-card", payload |-> [BasePayload EXCEPT !.playerId = 1]], 0)
  \/ \E p \in Remote \cup {Fifth}, id \in DOMAIN c.pendingActions, a \in BOOLEAN :
        DeliverVote(p, id, a)
  \/ \E p \in Remote \cup {Fifth}, id \in DOMAIN c.pendingActions : DeliverAction(p, id)

SpecVotes == InitReplay /\ [][NextVotes]_vars

(***************************************************************************)
(* The coordinator in a mesh of seven as the clock moves: once every link  *)
(* is up the local user and peer 2 propose actions, and three of the other *)
(* peers reject the pending ones, so that entries of either origin come    *)
(* out rejected.                                                           *)
(***************************************************************************)
Far == {5, 6, 7}
Voters == {3, 4, 5}

NextReject ==
  \/ Tick
  \/ \E p \in Remote \cup Far : PeerConnected(p)
  \/ InitializeGame
  \/ /\ connected = Remote \cup Far
     /\ LocalAction([type |-> "draw-card",
                     payload |-> [BasePayload EXCEPT !.playerId = 1]], 0)
  \/ /\ connected = Remote \cup Far
     /\ DeliverAction(2, 101)
  \/ \E p \in Voters, id \in DOMAIN c.pendingActions : DeliverVote(p, id, FALSE)

SpecReject == InitReplay /\ [][NextReject]_vars

(***************************************************************************)
(* The coordinator in a mesh as the clock moves, with a user who draws     *)
(* more often than the library has cards: an action is refused, and an     *)
(* earlier one is rejected by the peers afterwards.                        *)
(***************************************************************************)
MaxDraws == 3

NextRoll ==
  \/ Tick
  \/ \E p \in Remote : PeerConnected(p)
  \/ InitializeGame
  \/ LocalActionWithin(MaxDraws,
                       [type |-> "draw-card",
                        payload |-> [BasePayload EXCEPT !.playerId = 1]], 0)
  \/ \E p \in Remote, id \in DOMAIN c.pendingActions, a \in BOOLEAN :
        DeliverVote(p, id, a)

SpecRoll == InitReplay /\ [][NextRoll]_vars

(***************************************************************************)
(* The coordinator in a mesh as the clock moves, while a state two         *)
(* versions ahead travels through the mesh: it arrives from the peer that  *)
(* committed it and once more from each peer that took it and passed it    *)
(* on, and the votes on the local actions arrive in between.               *)
(***************************************************************************)
AheadStates ==
  { [InitialState EXCEPT !.version = PeerVersion + 1, !.phase = "combat"] }

\* an action-vote message from p is delivered for an entry that was pending
\* when a peer's state replaced the local one
DeliverLateVote(p, id, approved) ==
  /\ p \in connected
  /\ id \in DOMAIN c.pendingActions
  /\ id \notin TrailIds
  /\ LET tally == VoteOutcome(c, id, p, approved, Env)
         done(m2) ==
           /\ c' = m2
           /\ last' = Tallied([Note("action-vote", id, m2) EXCEPT !.approved = approved],
                              id, tally, VotesWith(c, id, p, approved))
     IN done(handleActionVote(Enter(c), id, p, approved, Env, NoRnd))
  /\ UNCHANGED <<kind, now, ticks, connected, steps, trail, watch, peers, net, round, mgr>>

NextCascade ==
  \/ Tick
  \/ \E p \in Remote : PeerConnected(p)
  \/ InitializeGame
  \/ \E tpl \in LocalTemplates : LocalAction(tpl, 0)
  \/ \E s \in AheadStates : DeliverState(s)
  \/ \E p \in Remote, id \in DOMAIN c.pendingActions, a \in BOOLEAN :
        DeliverVote(p, id, a)
  \/ \E p \in Remote, id \in DOMAIN c.pendingActions, a \in BOOLEAN :
        DeliverLateVote(p, id, a)

SpecCascade == InitReplay /\ [][NextCascade]_vars





(***************************************************************************)
(* The Action Processor as a function of the state: one GameStateManager   *)
(* (peers[1]) that holds a state an earlier part of the game has produced  *)
(* processes actions on players, cards, zones and counters, the refused    *)
(* ones included.  trail holds the action processed last with the state it *)
(* met.                                                                    *)
(***************************************************************************)
OfPlayer(pid) == [BasePayload EXCEPT !.playerId = pid]

\* the actions of the game so far
CardPrefixes ==
  LET draw2 == [action |-> Act(0, "draw-card", [OfPlayer(1) EXCEPT !.count = 2])]
      play(cid, zone) ==
        [action |-> Act(0, "play-card",
                        [OfPlayer(1) EXCEPT !.cardId = cid, !.targetZone = zone])]
      add(n) == [action |-> Act(0, "add-counter",
                                [OfPlayer(1) EXCEPT !.cardId = 1, !.count = n,
                                                    !.counterType = "p1p1"])]
  IN { <<>>,
       <<draw2>>,
       <<draw2, play(1, "")>>,
       <<draw2, play(1, ""), add(NoCount)>>,
       <<draw2, play(1, ""), add(2), play(2, "graveyard")>> }

CardStates == {Reapply(pre, InitialState) : pre \in CardPrefixes}

\* the actions handed to the Action Processor; player 9 is in no game, a
\* player has no zone "stack", and "name" is a field of a player that is
\* no zone
CardActions ==
  { [type |-> "next-turn", payload |-> BasePayload] }
  \cup
  { [type |-> t, payload |-> [OfPlayer(1) EXCEPT !.cardId = cid, !.count = n,
                                                 !.counterType = "p1p1"]] :
       t \in {"add-counter", "remove-counter"}, cid \in {1, 2}, n \in {NoCount, 2} }
  \cup
  { [type |-> "draw-card", payload |-> [OfPlayer(pid) EXCEPT !.count = n]] :
       pid \in {1, 2}, n \in {NoCount, 2} }
  \cup
  { [type |-> "play-card",
     payload |-> [OfPlayer(pid) EXCEPT !.cardId = 1, !.targetZone = z]] :
       pid \in {1, 9}, z \in {"", "graveyard", "stack"} }
  \cup
  { [type |-> "move-card",
     payload |-> [OfPlayer(1) EXCEPT !.cardId = 1, !.sourceZone = src,
                                     !.targetZone = tgt]] :
       src \in {"hand", "battlefield"}, tgt \in {"hand", "exile", "name"} }
  \cup
  { [type |-> "move-to-library",
     payload |-> [OfPlayer(1) EXCEPT !.cardId = cid, !.sourceZone = src,
                                     !.position = pos]] :
       cid \in {1, 2}, src \in {"battlefield", "library"}, pos \in {"", "bottom"} }

InitCards ==
  /\ kind \in {"p2p", "mesh"}
  /\ now = 0
  /\ ticks = 0
  /\ connected = {}
  /\ c = NewManager
  /\ steps = 0
  /\ last = NoLast
  /\ trail = <<>>
  /\ watch = NoWatch
  /\ \E st \in CardStates :
        peers = [i \in Peers |-> Enter(setGameState(NewManager, st, ProcEnv(kind)))]
  /\ net = [l \in Links |-> <<>>]
  /\ round = NoRound
  /\ mgr = NewConnectionManager

\* processAction(action) on peers[1]
CardApply(tpl) ==
  /\ steps < MaxActions
  /\ LET action == Act(steps + 1, tpl.type, tpl.payload)
         done(m1) ==
           /\ peers' = [peers EXCEPT ![1] = m1]
           /\ trail' = <<[action |-> action, origin |-> "local",
                          before |-> peers[1].gameState, rejected |-> FALSE,
                          ok |-> (m1.gameState # peers[1].gameState),
                          registered |-> FALSE]>>
     IN done(processAction(Enter(peers[1]), action, ProcEnv(kind), NoRnd))
  /\ steps' = steps + 1
  /\ UNCHANGED <<kind, now, ticks, connected, c, last, watch, net, round, mgr>>

NextCards == \E tpl \in CardActions : CardApply(tpl)

SpecCards == InitCards /\ [][NextCards]_vars


(***************************************************************************)
(* The coordinator and its timers over a session that ends with cleanup(): *)
(* the intervals of startStateConsistencyChecks and the setTimeout         *)
(* callbacks of addPendingAction.  After cleanup() the application calls   *)
(* the coordinator no more; what still runs is what the timers run.        *)
(***************************************************************************)
MaxStarts == 2

StartChecks ==
  /\ ~c.cleaned
  /\ c.handles < MaxStarts
  /\ LET done(m2) == c' = m2 /\ last' = Note("startStateConsistencyChecks", 0, m2)
     IN done(startStateConsistencyChecks(Enter(c)))
  /\ UNCHANGED <<kind, now, ticks, connected, steps, trail, watch, peers, net, round, mgr>>

\* the callback of the running interval h
IntervalFires(h) ==
  /\ h \in c.intervals
  /\ LET done(m2) == c' = m2 /\ last' = Note("consistency-check", h, m2)
     IN done(consistencyCheck(Enter(c), Env))
  /\ UNCHANGED <<kind, now, ticks, connected, steps, trail, watch, peers, net, round, mgr>>

Cleanup ==
  /\ ~c.cleaned
  /\ LET done(m2) == c' = m2 /\ last' = Note("cleanup", 0, m2)
     IN done(cleanup(Enter(c)))
  /\ UNCHANGED <<kind, now, ticks, connected, steps, trail, watch, peers, net, round, mgr>>

NextTeardown ==
  \/ \E p \in Remote : ~c.cleaned /\ PeerConnected(p)
  \/ ~c.cleaned /\ InitializeGame
  \/ \E tpl \in {t \in LocalTemplates : t.type = "draw-card"} :
        ~c.cleaned /\ LocalAction(tpl, 0)
  \/ StartChecks
  \/ \E h \in 1..MaxStarts : IntervalFires(h)
  \/ \E id \in 1..steps : ConsensusTimer(id)
  \/ Cleanup

SpecTeardown == Init /\ [][NextTeardown]_vars


(***************************************************************************)
(* The coordinator and its state listeners: callbacks are registered and   *)
(* removed while the game is set up and actions commit.                    *)
(***************************************************************************)
\* a callback is registered (one that was removed is not registered again)
AddStateListener(l) ==
  /\ l \notin c.removed
  /\ LET done(m2) == c' = m2 /\ last' = Note("addStateListener", l, m2)
     IN done(addStateListener(Enter(c), l))
  /\ UNCHANGED <<kind, now, ticks, connected, steps, trail, watch, peers, net, round, mgr>>

Unsubscribe(l) ==
  /\ \E i \in DOMAIN c.stateListeners : c.stateListeners[i] = l
  /\ LET done(m2) == c' = m2 /\ last' = Note("unsubscribe", l, m2)
     IN done(unsubscribe(Enter(c), l))
  /\ UNCHANGED <<kind, now, ticks, connected, steps, trail, watch, peers, net, round, mgr>>

NextListen ==
  \/ \E l \in Listeners : AddStateListener(l)
  \/ \E l \in Listeners : Unsubscribe(l)
  \/ InitializeGame
  \/ \E tpl \in LocalTemplates : LocalAction(tpl, 0)

SpecListen == Init /\ [][NextListen]_vars


(***************************************************************************)
(* The mesh manager (P2PConnectionManager) of the local peer and the       *)
(* events of its signaling server and of its links.                        *)
(***************************************************************************)
MaxLinks == 4
MaxSendLinks == 2
MaxSends == 2

\* a call of the manager begins: nothing notified or returned yet
Called(g, op, arg) ==
  [g EXCEPT !.op = op, !.arg = arg, !.notified = <<>>,
            !.successCount = 0, !.sent = FALSE]

\* every connection listener is called with (event, data)
notifyConnectionListeners(g, event, data) ==
  [g EXCEPT !.notified = Append(@, [event |-> event, data |-> data])]

\* this.peers.delete(peerId)
DeletePeer(g, peerId) ==
  [g EXCEPT !.peers = [x \in (DOMAIN g.peers) \ {peerId} |-> g.peers[x]]]

\* createPeerConnection: a new SimplePeer, stored under peerId
createPeerConnection(g, peerId, initiator) ==
  LET link == Len(g.made) + 1
  IN [g EXCEPT
        !.made = Append(@, [peerId |-> peerId, initiator |-> initiator,
                            open |-> TRUE, connected |-> FALSE, got |-> <<>>]),
        !.peers = [x \in (DOMAIN g.peers) \cup {peerId} |->
                     IF x = peerId THEN link ELSE g.peers[x]]]

\* existingPlayers.forEach, in the order of the list
RECURSIVE initializeConnections(_, _)
initializeConnections(g, existingPlayers) ==
  IF existingPlayers = <<>> THEN g
  ELSE initializeConnections(
         IF existingPlayers[1] # Self
         THEN createPeerConnection(g, existingPlayers[1], TRUE) ELSE g,
         Tail(existingPlayers))

handleSignal(g, from) ==
  IF from \notin DOMAIN g.peers THEN createPeerConnection(g, from, FALSE) ELSE g

handleUserJoined(g, userId) ==
  IF userId # Self /\ userId \notin DOMAIN g.peers
  THEN createPeerConnection(g, userId, TRUE) ELSE g

\* the 'connect' handler of link l
onConnect(g, l) ==
  notifyConnectionListeners([g EXCEPT !.made[l].connected = TRUE],
                            "peer-connected", g.made[l].peerId)

\* the 'close' handler of link l: it deletes the entry of the link's peer
\* id and tells the listeners
onClose(g, l) ==
  notifyConnectionListeners(
    DeletePeer([g EXCEPT !.made[l].open = FALSE, !.made[l].connected = FALSE],
               g.made[l].peerId),
    "peer-disconnected", g.made[l].peerId)

\* peer.destroy() closes the link, which emits 'close' on it; the entry is
\* deleted and the listeners are told
handleUserLeft(g, userId) ==
  IF userId \in DOMAIN g.peers
  THEN notifyConnectionListeners(
         DeletePeer(onClose(g, g.peers[userId]), userId),
         "peer-disconnected", userId)
  ELSE g

\* the links of the peers map that are connected
ConnectedLinks(g) == {g.peers[p] : p \in {q \in DOMAIN g.peers : g.made[g.peers[q]].connected}}

\* peer.send(JSON.stringify(data)) on each of the links ls
SendOn(g, ls, data) ==
  [g EXCEPT !.made = [l \in DOMAIN g.made |->
                        IF l \in ls THEN [g.made[l] EXCEPT !.got = Append(@, data)]
                        ELSE g.made[l]],
            !.sends = @ + 1]

\* a broadcast that hands the message to every link of the peers map
P2PBroadcastToAll(g, data) ==
  LET ls == {g.peers[p] : p \in DOMAIN g.peers}
  IN [SendOn(g, ls, data) EXCEPT !.successCount = Cardinality(ls)]

\* P2PConnectionManager.broadcast
P2PBroadcast(g, data) ==
  LET ls == ConnectedLinks(g)
  IN [SendOn(g, ls, data) EXCEPT !.successCount = Cardinality(ls)]

\* P2PConnectionManager.sendToPeer
P2PSendToPeer(g, peerId, data) ==
  IF peerId \in DOMAIN g.peers /\ g.made[g.peers[peerId]].connected
  THEN [SendOn(g, {g.peers[peerId]}, data) EXCEPT !.sent = TRUE]
  ELSE [g EXCEPT !.sends = @ + 1]

\* the player lists the signaling server may hand out
PlayerLists == {<<1, 2>>, <<1, 2, 3>>, <<2, 3, 4>>}

CountNew(players) == Cardinality({i \in DOMAIN players : players[i] # Self})

InitConn ==
  /\ kind = "p2p"
  /\ now = 0
  /\ ticks = 0
  /\ connected = {}
  /\ c = NewManager
  /\ steps = 0
  /\ last = NoLast
  /\ trail = <<>>
  /\ watch = NoWatch
  /\ peers = [i \in Peers |-> NewManager]
  /\ net = [l \in Links |-> <<>>]
  /\ round = NoRound
  /\ mgr = NewConnectionManager

InitializeConnections(players) ==
  /\ Len(mgr.made) + CountNew(players) <= MaxLinks
  /\ mgr' = initializeConnections(Called(mgr, "initializeConnections", 0), players)
  /\ UNCHANGED <<kind, now, ticks, connected, c, steps, last, trail, watch, peers, net, round>>

Signal(from) ==
  /\ Len(mgr.made) < MaxLinks
  /\ mgr' = handleSignal(Called(mgr, "handleSignal", from), from)
  /\ UNCHANGED <<kind, now, ticks, connected, c, steps, last, trail, watch, peers, net, round>>

UserJoined(userId) ==
  /\ Len(mgr.made) < MaxLinks
  /\ mgr' = handleUserJoined(Called(mgr, "handleUserJoined", userId), userId)
  /\ UNCHANGED <<kind, now, ticks, connected, c, steps, last, trail, watch, peers, net, round>>

UserLeft(userId) ==
  /\ mgr' = handleUserLeft(Called(mgr, "handleUserLeft", userId), userId)
  /\ UNCHANGED <<kind, now, ticks, connected, c, steps, last, trail, watch, peers, net, round>>

\* link l connects
LinkConnected(l) ==
  /\ mgr.made[l].open
  /\ ~mgr.made[l].connected
  /\ mgr' = onConnect(Called(mgr, "connect", l), l)
  /\ UNCHANGED <<kind, now, ticks, connected, c, steps, last, trail, watch, peers, net, round>>

\* link l closes (the remote side went away)
LinkClosed(l) ==
  /\ mgr.made[l].open
  /\ mgr' = onClose(Called(mgr, "close", l), l)
  /\ UNCHANGED <<kind, now, ticks, connected, c, steps, last, trail, watch, peers, net, round>>

\* the coordinator broadcasts its next message
Broadcast ==
  /\ mgr.sends < MaxSends
  /\ mgr' = P2PBroadcast(Called(mgr, "broadcast", 0), mgr.sends + 1)
  /\ UNCHANGED <<kind, now, ticks, connected, c, steps, last, trail, watch, peers, net, round>>

\* the coordinator sends its next message to one peer
SendToPeer(peerId) ==
  /\ mgr.sends < MaxSends
  /\ mgr' = P2PSendToPeer(Called(mgr, "sendToPeer", peerId), peerId, mgr.sends + 1)
  /\ UNCHANGED <<kind, now, ticks, connected, c, steps, last, trail, watch, peers, net, round>>

NextConn ==
  \/ \E players \in PlayerLists : InitializeConnections(players)
  \/ \E from \in Remote : Signal(from)
  \/ \E userId \in Remote \cup {Self} : UserJoined(userId)
  \/ \E userId \in Remote : UserLeft(userId)
  \/ \E l \in 1..Len(mgr.made) : LinkClosed(l)

SpecConn == InitConn /\ [][NextConn]_vars

\* the manager with few links, which connect and carry messages
NextSend ==
  \/ \E players \in PlayerLists :
        Len(mgr.made) + CountNew(players) <= MaxSendLinks /\ InitializeConnections(players)
  \/ \E userId \in Remote : Len(mgr.made) < MaxSendLinks /\ UserJoined(userId)
  \/ \E userId \in Remote : UserLeft(userId)
  \/ \E l \in 1..Len(mgr.made) : LinkConnected(l)
  \/ \E l \in 1..Len(mgr.made) : LinkClosed(l)
  \/ Broadcast
  \/ \E peerId \in Remote : SendToPeer(peerId)

SpecSend == InitConn /\ [][NextSend]_vars


(***************************************************************************)
(* Claims                                                                  *)
(***************************************************************************)
MeshSize == Cardinality(getConnectedPeers(Env)) + 1

\* C1: when the tally of an action the local peer proposed through
\* applyAction comes out rejected (the first rejection since the state was
\* last replaced), the state after rollbackAction is the state that was
\* current before the action was applied with every later action re-applied
\* in order.
C1_RollbackExact ==
  (last.tally = "rejected" /\ last.origin = "local" /\ last.first)
     => c.gameState = last.expect

\* a rejected tally of a local action after which the state is the expected one
C1_RollbackRestores ==
  /\ last.tally = "rejected" /\ last.origin = "local" /\ last.first
  /\ last.restored /\ last.changed
  /\ c.gameState = last.expect

\* C2: on a peer that applied an action received from another peer, a
\* rejection by the majority (at least half of the mesh vote reject, the
\* sender not among them) rolls the action back: the state is the one that
\* preceded the action.
C2_ReceiverRollsBack ==
  LET i == IndexOfTrail(watch.id)
  IN (/\ i # 0
      /\ trail[i].origin = "peer" /\ trail[i].ok /\ trail[i].registered
      /\ NoneRejected /\ watch.stable
      /\ watch.from \notin watch.rejecters
      /\ 2 * Cardinality(watch.rejecters) >= MeshSize)
       => c.gameState = Without(i)

\* no tally ever rejects an action this peer received from another peer
C2_ReceiverTallyNeverRejects ==
  ~(last.tally = "rejected" /\ last.origin = "peer")

\* C3: in a mesh of 3 or 4 peers a single reject vote never rolls an action
\* back on its proposer.
C3_SingleRejectKeepsAction ==
  ~(/\ last.tally = "rejected" /\ last.origin = "local"
    /\ last.rejects = 1 /\ MeshSize \in {3, 4}
    /\ last.restored /\ last.changed)

\* C4: in a mesh of 2 to 4 peers, once every other connected peer has voted
\* reject on an action the local peer proposed, the action is no longer
\* applied in the local state.
C4_OthersRejectUndoes ==
  LET i == IndexOfTrail(watch.id)
  IN (/\ i # 0
      /\ trail[i].origin = "local" /\ trail[i].ok /\ trail[i].registered
      /\ \A j \in 1..Len(trail) : j # i => ~trail[j].rejected
      /\ watch.stable
      /\ MeshSize \in 2..4
      /\ watch.rejecters = connected)
       => c.gameState = Without(i)

\* C5: a game-action message whose action id this peer has already applied
\* leaves the game state and its version unchanged.
C5_DuplicateIsNoop ==
  (last.op = "game-action" /\ last.known) => ~last.changed

\* C6: whenever applyAction returns false the game state is what it was
\* before the call and no message was sent during the call.
C6_FailedApplyIsNoop ==
  (last.op = "applyAction" /\ ~last.ret) => (~last.changed /\ c.out = <<>>)

\* applyAction returned false for an action the processor refuses
C6_RefusedAction ==
  last.op = "applyAction" /\ last.known /\ ~last.valid /\ ~last.ret

GameActionsTo(p) ==
  {k \in 1..Len(c.out) : c.out[k].to = p /\ c.out[k].msg.type = "game-action"}

\* C7: for an action whose handler's preconditions hold, applyAction applies
\* it, returns true, sends exactly one game-action message carrying it to
\* each connected peer and registers a pending entry whose votes hold the
\* proposer's own accept (an entry that the proposer's vote finalises within
\* the call counts as registered).
C7_ValidActionProposed ==
  (last.op = "applyAction" /\ last.valid) =>
     /\ last.ret /\ last.changed
     /\ \A p \in getConnectedPeers(Env) :
          /\ Cardinality(GameActionsTo(p)) = 1
          /\ \A k \in GameActionsTo(p) : c.out[k].msg.action.id = last.id
     /\ \/ last.tally = "approved"
        \/ /\ last.id \in DOMAIN c.pendingActions
           /\ Self \in DOMAIN c.pendingActions[last.id].votes
           /\ c.pendingActions[last.id].votes[Self]

\* a valid action proposed in a mesh of 3 or 4: applied, sent, pending
C7_ProposedAndPending ==
  /\ last.op = "applyAction" /\ last.valid /\ last.ret
  /\ MeshSize >= 3
  /\ last.id \in DOMAIN c.pendingActions

\* C8: a peer that holds a state replaces it by a state received in a
\* game-state message only if the received version is strictly greater: a
\* received state of equal or lower version leaves state, history and
\* version unchanged.
C8_OnlyNewerStateAccepted ==
  [][\A l \in Links :
       (/\ net[l] # <<>>
        /\ round' = Delivered(l)
        /\ Head(net[l]).type = "game-state"
        /\ HasState(peers[l[2]].gameState))
       => IF Head(net[l]).state.version > peers[l[2]].gameState.version
          THEN peers'[l[2]].gameState = Head(net[l]).state
          ELSE /\ peers'[l[2]].gameState = peers[l[2]].gameState
               /\ peers'[l[2]].stateHistory = peers[l[2]].stateHistory]_vars

\* a state of equal or lower version that differs from the receiver's has
\* just been handled, and the receiver does not hold it
C8_StaleStateIgnored ==
  /\ round.did.op = "deliver" /\ round.did.stale
  /\ peers[round.did.at[1]].gameState # peers[round.did.at[2]].gameState
  /\ peers[round.did.at[1]].gameState.version
        <= peers[round.did.at[2]].gameState.version

\* the state of higher version of the two a reconciliation cycle started from
HigherOf(from) == IF from[1].version > from[2].version THEN from[1] ELSE from[2]

CycleOver == round.checked = Peers /\ Quiescent

\* C9: two connected peers hold states of different version; after one
\* reconciliation cycle (the interval of each has fired and every message
\* is delivered) both hold the state that had the higher version: the lower
\* peer has taken it and the higher peer's state is unchanged.
C9_CycleConverges ==
  (CycleOver /\ round.from[1].version # round.from[2].version)
     => \A i \in Peers : peers[i].gameState = HigherOf(round.from)

\* a cycle that started from states of different version is over
C9_Reconciled ==
  /\ CycleOver
  /\ round.from[1].version # round.from[2].version
  /\ \A i \in Peers : peers[i].gameState = HigherOf(round.from)

\* C10: once no further action is proposed, fair delivery and periodic hash
\* checks lead to a state in which the peers hold equal game states.
C10_DivergenceHeals ==
  (round.n = MaxProposals) ~> (peers[1].gameState = peers[2].gameState)

\* a cycle is over and the peers hold different states of one version
C10_StuckDivergence ==
  /\ CycleOver
  /\ round.n = MaxProposals
  /\ peers[1].gameState # peers[2].gameState
  /\ peers[1].gameState.version = peers[2].gameState.version

\* C11: two snapshots of one session with equal version are equal in
\* content: the current states of the two peers, and the current state of a
\* peer and any state it held before (its history).
C11_EqualVersionEqualContent ==
  /\ peers[1].gameState.version = peers[2].gameState.version
        => peers[1].gameState = peers[2].gameState
  /\ \A i \in Peers : \A k \in 1..Len(peers[i].stateHistory) :
        peers[i].stateHistory[k].state.version = peers[i].gameState.version
           => peers[i].stateHistory[k].state = peers[i].gameState

\* after proposals the peers hold one state of one version above the first
C11_SameVersionSameState ==
  /\ round.n > 0
  /\ peers[1].gameState.version > 1
  /\ peers[1].gameState = peers[2].gameState

\* C12: an action handed to processAction (proposed locally or received from
\* a peer) raises the version of the current state by exactly 1 when
\* processAction reports success and leaves the version unchanged when it
\* reports failure.
C12_VersionStepsByOne ==
  [][(steps' = steps + 1 /\ last'.op \in {"applyAction", "game-action"})
       => c'.gameState.version =
             c.gameState.version + (IF last'.ret THEN 1 ELSE 0)]_vars

\* an action was processed with success and the version is one above the
\* version of the state it met
C12_AcceptedAction ==
  /\ last.op \in {"applyAction", "game-action"} /\ last.ret /\ last.changed
  /\ trail # <<>>
  /\ trail[Len(trail)].action.id = last.id
  /\ c.gameState.version = trail[Len(trail)].before.version + 1

\* the entries of m older than PendingTTL at time t
Expired(m, t) ==
  {id \in DOMAIN m.pendingActions : t - m.pendingActions[id].timestamp > PendingTTL}

\* C13: when a vote or a timer callback whose tally rolls nothing back
\* removes a pending entry older than 10 s (the sweep of
\* cleanupPendingActions), the game state, the history and the action log
\* are what they were: the swept action stays applied.
C13_SweepKeepsState ==
  [][(/\ last'.op \in {"action-vote", "consensus-timer"}
      /\ last'.tally # "rejected"
      /\ Expired(c, now') \ DOMAIN c'.pendingActions # {})
       => /\ c'.gameState = c.gameState
          /\ c'.stateHistory = c.stateHistory
          /\ c'.actionLog = c.actionLog]_vars

\* a timer callback whose tally stays open has just swept the entries of
\* other actions; each is an applied action no tally rejected, and the state
\* is the one the applied actions produced
C13_SweptUnresolved ==
  /\ last.op = "consensus-timer" /\ last.tally = "open"
  /\ last.swept # {}
  /\ \A id \in last.swept :
       /\ IndexOfTrail(id) # 0
       /\ trail[IndexOfTrail(id)].ok
       /\ ~trail[IndexOfTrail(id)].rejected
       /\ IndexOfLog(c.actionLog, id) # 0
  /\ c.gameState = Reapply(trail, trail[1].before)

\* C14: a pending entry whose 10 s have elapsed is removed even if no
\* further vote or action arrives: once no setTimeout callback of a pending
\* entry is outstanding (nothing of the coordinator is left to run), no
\* entry older than 10 s is pending.
C14_ExpiredEntryRemoved ==
  (\A t \in c.timers : t.id \notin DOMAIN c.pendingActions)
     => Expired(c, now) = {}

\* a vote that arrived after the 10 s of another entry has swept that entry
C14_SweptOnVote ==
  /\ last.op = "action-vote"
  /\ last.swept # {}
  /\ Expired(c, now) = {}

\* C15: in a mesh of 4 peers a pending action that collects its second vote
\* (2 of 4) within its 10 s stays unresolved: the vote neither removes the
\* entry nor changes the game state.
C15_TwoOfFourStaysPending ==
  [][(/\ last'.op = "action-vote"
      /\ Cardinality(connected) = 3
      /\ last'.id \in DOMAIN c.pendingActions
      /\ Cardinality(DOMAIN c.pendingActions[last'.id].votes) = 1
      /\ last'.id \notin Expired(c, now'))
       => /\ last'.id \in DOMAIN c'.pendingActions
          /\ c'.gameState = c.gameState]_vars

\* C16: two peers that start from the same state and apply the same
\* sequence of actions hold identical states (same cards in the same zones
\* in the same order, same version), whatever the types of the actions.
C16_ReplicasAgree == peers[1].gameState = peers[2].gameState

\* two replicas agree after actions that make no random draw
C16_AgreeOnDraws ==
  /\ Len(trail) = MaxActions
  /\ \A i \in 1..Len(trail) : trail[i].action.type = "draw-card" /\ trail[i].ok
  /\ peers[1].gameState = peers[2].gameState

\* the ids of the cards on the battlefields of a state, player by player
BattlefieldIds(state) ==
  [i \in 1..Len(state.players) |->
     [k \in 1..Len(state.players[i].battlefield) |->
        state.players[i].battlefield[k].id]]

Distinct(ids) ==
  \A i, j \in DOMAIN ids : \A k \in DOMAIN ids[i], l \in DOMAIN ids[j] :
     (ids[i][k] = ids[j][l]) => (i = j /\ k = l)

\* C17: after any sequence of create-token actions no two cards on the
\* battlefields share an id, on a GameStateManager and on a
\* SinglePlayerGameStateManager, also when tokenData carries an id.
C17_TokenIdsUnique ==
  /\ \A i \in Peers : Distinct(BattlefieldIds(peers[i].gameState))
  /\ Distinct(BattlefieldIds(c.gameState))

\* two tokens whose tokenData carried the same id, on a GameStateManager
C17_TwoTokensApart ==
  /\ Len(trail) >= 2
  /\ \A i \in 1..2 : /\ trail[i].action.type = "create-token"
                     /\ trail[i].action.payload.tokenData.id = TokenId
  /\ Distinct(BattlefieldIds(peers[1].gameState))
  /\ \E i \in 1..2 : Len(peers[1].gameState.players[i].battlefield) >= 2

\* C18: a draw-card whose count exceeds the length of the player's library
\* fails and leaves the state (hand, library, version) unchanged; with a
\* count up to the length of the library the first count cards of the
\* library are moved, in order, to the end of the hand.
C18_DrawCard ==
  \A n \in 1..Len(trail) :
     (n = Len(trail) /\ trail[n].action.type = "draw-card") =>
        LET before == trail[n].before
            pi == IndexOfPlayer(before, trail[n].action.payload.playerId)
            given == trail[n].action.payload.count
            count == IF given = NoCount THEN 1 ELSE given
            lib == before.players[pi].library
            after == peers[1].gameState.players[pi]
        IN IF count > Len(lib)
           THEN ~peers[1].ok /\ peers[1].gameState = before
           ELSE /\ after.hand = before.players[pi].hand \o SubSeq(lib, 1, count)
                /\ after.library = SubSeq(lib, count + 1, Len(lib))
                /\ peers[1].gameState.version = before.version + 1

\* both cases have happened: a draw of the whole library, then a refused one
C18_DrawnThenUnderflow ==
  /\ Len(trail) >= 2
  /\ trail[1].action.type = "draw-card" /\ trail[1].action.payload.count = 2
  /\ trail[2].action.type = "draw-card" /\ trail[2].action.payload.count = 1
  /\ ~trail[2].ok
  /\ Len(peers[1].gameState.players[1].hand) = 2

\* C19: the history never holds more than 20 snapshots; a commit that
\* replaces a current state appends that state to the history and, when the
\* history already holds 20, evicts the oldest snapshot first.
C19_HistoryBounded ==
  [][/\ Len(c'.stateHistory) <= HistoryLimit
     /\ (HasState(c.gameState) /\ c'.gameState # c.gameState) =>
          c'.stateHistory =
             (IF Len(c.stateHistory) < HistoryLimit THEN c.stateHistory
              ELSE Tail(c.stateHistory))
             \o <<[state |-> c.gameState, timestamp |-> now']>>]_vars

\* the history is full and its oldest snapshot is no longer the first state
C19_OldestEvicted ==
  /\ Len(c.stateHistory) = HistoryLimit
  /\ c.stateHistory[1].state.version > 1
  /\ c.stateHistory[HistoryLimit].state.version = c.gameState.version - 1

\* the open links that lead to peer p
OpenLinksTo(p) == {l \in 1..Len(mgr.made) : mgr.made[l].open /\ mgr.made[l].peerId = p}

\* C20: creating a connection to a peer that has a link is a no-op: at any
\* time at most one open link leads to a remote peer, and every open link is
\* the one the peers map holds for its peer (none was replaced or orphaned).
C20_OneLinkPerPeer ==
  \A p \in Remote :
     /\ Cardinality(OpenLinksTo(p)) <= 1
     /\ \A l \in OpenLinksTo(p) : p \in DOMAIN mgr.peers /\ mgr.peers[p] = l

\* how often the call made last told the listeners that peer p disconnected
Disconnects(g, p) ==
  Cardinality({i \in DOMAIN g.notified :
                 g.notified[i] = [event |-> "peer-disconnected", data |-> p]})

\* C21: when user-left arrives for a peer that has a link, the link is torn
\* down, the peer leaves the peers map and the connection listeners are told
\* peer-disconnected for that peer exactly once.
C21_UserLeftNotifiesOnce ==
  [][mgr'.op = "handleUserLeft" /\ mgr'.arg \in DOMAIN mgr.peers
       => /\ ~mgr'.made[mgr.peers[mgr'.arg]].open
          /\ mgr'.arg \notin DOMAIN mgr'.peers
          /\ Disconnects(mgr', mgr'.arg) = 1]_vars

\* a user-left for a linked peer has been handled: the link is closed, the
\* peer is off the map and the listeners were told twice
C21_UserLeftNotifiedTwice ==
  /\ mgr.op = "handleUserLeft"
  /\ mgr.arg \notin DOMAIN mgr.peers
  /\ Disconnects(mgr, mgr.arg) = 2

\* link l is the one the peers map of g holds for its peer, and is connected
Live(g, l) ==
  /\ g.made[l].peerId \in DOMAIN g.peers
  /\ g.peers[g.made[l].peerId] = l
  /\ g.made[l].connected

\* C22: broadcast hands the message to exactly the links connected at the
\* time of the call and returns their number; sendToPeer to a peer whose
\* link is absent or not connected returns false and sends nothing; and no
\* other step hands a link anything, so a link that connects later gets no
\* earlier message.
C22_SendsReachConnectedLinks ==
  [][LET links == 1..Len(mgr.made)
         same(l) == mgr'.made[l].got = mgr.made[l].got
     IN /\ mgr'.op = "broadcast"
             => /\ \A l \in links :
                     IF Live(mgr, l)
                     THEN mgr'.made[l].got = Append(mgr.made[l].got, mgr.sends + 1)
                     ELSE same(l)
                /\ mgr'.successCount = Cardinality({l \in links : Live(mgr, l)})
        /\ mgr'.op = "sendToPeer"
             /\ (\A k \in links : Live(mgr, k) => mgr.made[k].peerId # mgr'.arg)
             => ~mgr'.sent /\ \A l \in links : same(l)
        /\ mgr'.op \notin {"broadcast", "sendToPeer"}
             => /\ \A l \in links : same(l)
                /\ \A l \in (1..Len(mgr'.made)) \ links : mgr'.made[l].got = <<>>]_vars

\* a broadcast reached one link while another was not connected; the other
\* has connected since and holds nothing
C22_LateLinkMissedBroadcast ==
  \E l, k \in 1..Len(mgr.made) :
     /\ mgr.made[l].got # <<>>
     /\ mgr.op = "connect" /\ mgr.arg = k
     /\ mgr.peers[mgr.made[k].peerId] = k
     /\ mgr.made[k].connected
     /\ mgr.made[k].got = <<>>

\* C23: when peer-connected for peer Q is delivered to a coordinator that
\* holds a game state, the step sends one message, to Q: a game-state
\* carrying the current state, which the step leaves as it is.
C23_StatePushedOnConnect ==
  [][last'.op = "peer-connected" /\ HasState(c.gameState)
       => /\ c'.out = <<[to |-> last'.id,
                         msg |-> [type |-> "game-state", state |-> c.gameState]]>>
          /\ c'.gameState = c.gameState]_vars

\* a second peer has connected to a coordinator whose state is past its
\* first version, and was sent that state
C23_LatecomerGotState ==
  /\ last.op = "peer-connected"
  /\ Cardinality(connected) >= 2
  /\ c.gameState.version > 1
  /\ Len(c.out) = 1
  /\ c.out[1].to = last.id
  /\ c.out[1].msg.state = c.gameState

\* C24: after cleanup() has returned, no interval broadcasts a
\* state-hash-check and no consensus timer of a pending action runs.
C24_NoTimerAfterCleanup ==
  [][c.cleaned
       => /\ last'.op # "consensus-timer"
          /\ ~(/\ last'.op = "consistency-check"
                /\ \E i \in DOMAIN c'.out : c'.out[i].msg.type = "state-hash-check")]_vars

\* cleanup() after a single startStateConsistencyChecks: no interval is left
C24_SingleIntervalStopped ==
  /\ c.cleaned
  /\ c.handles = 1
  /\ c.intervals = {}

\* the step commits a state: the game is set up or a proposed action changes
\* the state
Commits == last'.op = "initializeGameState" \/ (last'.op = "applyAction" /\ last'.valid)

\* the state such a step commits
Committed ==
  IF last'.op = "initializeGameState" THEN InitialState
  ELSE Apply(c.gameState, trail'[Len(trail')].action)

\* C25 as stated: a commit calls every registered listener, within the step,
\* with the new state, the store holds the new state whatever the listeners
\* did to what they received, and no removed listener is called.
C25_EachListenerGetsNewState ==
  [][Commits
       => /\ c'.gameState = Committed
          /\ c'.heard = [i \in DOMAIN c.stateListeners |->
                           [listener |-> c.stateListeners[i], state |-> Committed]]
          /\ \A i \in DOMAIN c'.heard : c'.heard[i].listener \notin c.removed]_vars

\* C25, amended: a commit calls every registered listener once, within the
\* step and in the order of registration, with one shared copy of the new
\* state: a listener is handed the new state as the listeners called before
\* it left it.  The store holds the new state whatever the listeners did,
\* no removed listener is called, and a step that commits nothing calls none.
C25_ListenersShareOneCopy ==
  [][/\ Commits
          => /\ c'.gameState = Committed
             /\ c'.heard =
                  [i \in DOMAIN c.stateListeners |->
                     [listener |-> c.stateListeners[i],
                      state |-> IF \E j \in 1..(i - 1) : Meddles(c.stateListeners[j])
                                THEN Scribble(Committed) ELSE Committed]]
             /\ \A i \in DOMAIN c'.heard : c'.heard[i].listener \notin c.removed
     /\ ~Commits => c'.heard = <<>>]_vars

\* an action committed after a listener was removed: the writing listener
\* was called first, the next one was handed what the first made of the
\* copy, and the store holds the new state
C25_SecondHeardScribble ==
  /\ last.op = "applyAction" /\ last.valid
  /\ c.removed # {}
  /\ Len(c.heard) = 2
  /\ Meddles(c.heard[1].listener)
  /\ c.heard[1].state = c.gameState
  /\ c.heard[2].state = Scribble(c.gameState)
  /\ c.gameState.phase # "scribbled"

\* C27: a vote or a timer callback whose tally counted fewer votes than
\* half of (the peers connected at that step + 1) leaves the game state as
\* it is and the entry pending, unless the entry is older than 10 s and the
\* sweep removes it; so an entry is committed or rolled back by a tally only
\* at or above that count.
C27_TallyNeedsHalf ==
  [][(/\ last'.op \in {"action-vote", "consensus-timer"}
      /\ last'.id \in DOMAIN c.pendingActions
      /\ 2 * last'.total < Cardinality(connected) + 1)
       => /\ c'.gameState = c.gameState
          /\ c'.stateHistory = c.stateHistory
          /\ \/ last'.id \in DOMAIN c'.pendingActions
             \/ last'.id \in Expired(c, now')]_vars

\* an entry that stayed pending while more peers were connected has been
\* resolved by a timer callback on its one vote, the links having changed
\* since the proposal
C27_ResolvedOnPresentCount ==
  /\ last.op = "consensus-timer"
  /\ last.tally = "approved"
  /\ last.total = 1
  /\ last.id = watch.id /\ ~watch.stable
  /\ Cardinality(connected) = 1
  /\ last.id \notin DOMAIN c.pendingActions

\* C28: a vote or a timer callback whose tally approves leaves game state
\* (and so the version), history and action log as they are and sends
\* nothing: the entry leaves the pending set, along with the entries older
\* than 10 s that the sweep removes, and every other entry is kept as it is.
\* A vote on an action that is not pending changes nothing.  (The clock
\* steps, which run no handler, are the ones that change ticks.)
C28_ApprovalOnlyDropsEntry ==
  [][/\ (/\ last'.op \in {"action-vote", "consensus-timer"}
          /\ ticks' = ticks
          /\ last'.id \in DOMAIN c.pendingActions
          /\ last'.tally = "approved")
          => /\ c'.gameState = c.gameState
             /\ c'.stateHistory = c.stateHistory
             /\ c'.actionLog = c.actionLog
             /\ c'.out = <<>>
             /\ DOMAIN c'.pendingActions =
                  DOMAIN c.pendingActions \ ({last'.id} \cup Expired(c, now'))
             /\ \A x \in DOMAIN c'.pendingActions :
                  c'.pendingActions[x] = c.pendingActions[x]
     /\ (/\ last'.op = "action-vote"
          /\ ticks' = ticks
          /\ last'.id \notin DOMAIN c.pendingActions)
          => /\ c'.gameState = c.gameState
             /\ c'.stateHistory = c.stateHistory
             /\ c'.actionLog = c.actionLog
             /\ c'.pendingActions = c.pendingActions
             /\ c'.out = <<>>]_vars

\* a reject has arrived for an applied action that a tally approved (it is
\* no longer pending, was never rolled back, and no entry is old enough to
\* have been swept): the vote was ignored
C28_LateRejectIgnored ==
  /\ last.op = "action-vote" /\ ~last.approved
  /\ last.tally = "ignored"
  /\ last.id \in AppliedIds
  /\ ~trail[IndexOfTrail(last.id)].rejected
  /\ now <= PendingTTL
  /\ c.gameState = Reapply(trail, trail[1].before)

\* how many of the actions are applied when handed to the Action Processor
\* in order, starting from state
RECURSIVE Successes(_, _)
Successes(state, entries) ==
  IF entries = <<>> THEN 0
  ELSE IF Apply(state, entries[1].action) # state
       THEN 1 + Successes(Apply(state, entries[1].action), Tail(entries))
       ELSE Successes(state, Tail(entries))

\* C29: after a rollback that restores a snapshot, the version is the
\* snapshot's version plus the number of later logged actions that the
\* replay applied.  (The clock steps are the ones that change ticks.)
C29_VersionAfterRollback ==
  [][(/\ last'.op = "action-vote" /\ last'.tally = "rejected" /\ last'.restored
      /\ ticks' = ticks)
       => LET i == IndexOfLog(c.actionLog, last'.id)
              snapshot ==
                c.stateHistory[IndexOfLaterSnapshot(
                                 c.stateHistory, c.actionLog[i].appliedAt) - 1].state
          IN c'.gameState.version =
               snapshot.version
                 + Successes(snapshot, SubSeq(c.actionLog, i + 1, Len(c.actionLog)))]_vars

\* a rollback has restored a snapshot and replayed one later action: the
\* version is one above the snapshot's and below the one the rollback replaced
C29_RolledBackAndReplayed ==
  /\ last.op = "action-vote" /\ last.tally = "rejected" /\ last.restored
  /\ Len(c.stateHistory) >= 3
  /\ c.gameState.version = c.stateHistory[Len(c.stateHistory)].state.version + 1
  /\ c.gameState.version < c.stateHistory[Len(c.stateHistory) - 1].state.version

\* the action-vote messages among the messages a step sent
VotesSent(out) ==
  {out[i].msg : i \in {j \in DOMAIN out : out[j].msg.type = "action-vote"}}

\* C26: an action of a type the switch has no case for fails and leaves the
\* state (its version with it), the history and the pending set as they
\* are; proposed by the user, applyAction returns false and sends nothing;
\* received from a peer, the step sends every connected peer one message,
\* the action-vote on that action with approved false.
C26_UnknownTypeFails ==
  [][/\ HasState(c.gameState)
     /\ steps' = steps + 1
     /\ trail'[Len(trail')].action.type = UnknownType
     => /\ ~last'.ret
        /\ c'.gameState = c.gameState
        /\ c'.stateHistory = c.stateHistory
        /\ c'.pendingActions = c.pendingActions
        /\ last'.op = "applyAction" => c'.out = <<>>
        /\ last'.op = "game-action"
             => /\ {c'.out[i].to : i \in DOMAIN c'.out} = connected
                /\ Len(c'.out) = Cardinality(connected)
                /\ VotesSent(c'.out) =
                     {[type |-> "action-vote", actionId |-> UnknownId,
                       approved |-> FALSE]}
                /\ \A i \in DOMAIN c'.out : c'.out[i].msg.type = "action-vote"]_vars

\* a coordinator with two connected peers that holds a game state refused
\* the user's action of an unhandled type and then a peer's
C26_BothUnknownRefused ==
  /\ last.op = "game-action"
  /\ last.id = UnknownId
  /\ ~last.ret
  /\ HasState(c.gameState)
  /\ Len(trail) >= 2
  /\ \E i \in 1..(Len(trail) - 1) :
        /\ trail[i].origin = "local"
        /\ trail[i].action.type = UnknownType
        /\ ~trail[i].ok
  /\ trail[Len(trail)].before = c.gameState
  /\ Cardinality(connected) >= 2
  /\ Len(c.out) = Cardinality(connected)

\* C30: a game-action for an id that is not pending makes a coordinator that
\* holds a game state send each connected peer one action-vote, the one for
\* that id whose approved flag is what processAction returned; on
\* success an entry is registered (its timer is set), on failure the state
\* and the pending set are unchanged.  A game-action for a pending id sends
\* nothing, leaves the state as it is and adds the sender's accept vote.
C30_PeerActionVoted ==
  [][/\ last'.op = "game-action"
     /\ ticks' = ticks
     /\ HasState(c.gameState)
     => LET id == last'.id
            ok == last'.ret
        IN IF id \in DOMAIN c.pendingActions
           THEN /\ c'.out = <<>>
                /\ c'.gameState = c.gameState
                /\ c'.stateHistory = c.stateHistory
                /\ id \in DOMAIN c'.pendingActions
                     => \E p \in connected :
                          c'.pendingActions[id].votes = VotesWith(c, id, p, TRUE)
                /\ id \notin DOMAIN c'.pendingActions => last'.tally = "approved"
           ELSE /\ LET sent == {i \in DOMAIN c'.out :
                                     c'.out[i].msg.type = "action-vote"}
                   IN /\ Cardinality(sent) = Cardinality(connected)
                      /\ {c'.out[i].to : i \in sent} = connected
                /\ VotesSent(c'.out) =
                     {[type |-> "action-vote", actionId |-> id, approved |-> ok]}
                /\ ok => \E t \in c'.timers :
                            t.id = id /\ t.due = now + ConsensusDelay
                /\ ~ok => /\ c'.gameState = c.gameState
                          /\ c'.pendingActions = c.pendingActions]_vars

\* a coordinator on the real connection manager committed a peer's action
\* and told the peers that it rejects it
C30_RejectedWhatItApplied ==
  /\ kind = "p2p"
  /\ last.op = "game-action"
  /\ ~last.ret
  /\ last.changed
  /\ c.gameState = Apply(trail[Len(trail)].before, trail[Len(trail)].action)
  /\ c.gameState # trail[Len(trail)].before
  /\ last.id \notin DOMAIN c.pendingActions
  /\ c.out # <<>>
  /\ \A i \in DOMAIN c.out :
        c.out[i].msg = [type |-> "action-vote", actionId |-> last.id,
                        approved |-> FALSE]

\* C31: a state-hash-check from peer P makes the coordinator send exactly
\* one message, request-full-state to P, when it holds a state whose hash
\* differs from the received one; with equal hashes or without a state it
\* sends nothing.  The game state, the history and the pending set are
\* never changed by the step.
C31_HashMismatchAsksSender ==
  [][last'.op = "state-hash-check"
       => /\ c'.gameState = c.gameState
          /\ c'.stateHistory = c.stateHistory
          /\ c'.pendingActions = c.pendingActions
          /\ c'.out =
               IF /\ HasState(c.gameState)
                  /\ calculateStateHash(c.gameState) # calculateStateHash(last'.expect)
               THEN <<[to |-> last'.id, msg |-> [type |-> "request-full-state"]]>>
               ELSE <<>>]_vars

\* with three peers connected, the hash of a state that differs from the
\* coordinator's was answered by one request, to its sender
C31_AskedOneOfThree ==
  /\ last.op = "state-hash-check"
  /\ Cardinality(connected) = 3
  /\ HasState(c.gameState)
  /\ calculateStateHash(last.expect) # calculateStateHash(c.gameState)
  /\ c.out = <<[to |-> last.id, msg |-> [type |-> "request-full-state"]]>>
  /\ last.id # 2

CounterValues(state) ==
  UNION { UNION { {state.players[i].battlefield[k].counters[t] : t \in CounterTypes} :
                   k \in DOMAIN state.players[i].battlefield } :
          i \in DOMAIN state.players }

CardCount(player, id) ==
  LET in(zone) == Cardinality({k \in DOMAIN player[zone] : player[zone][k].id = id})
  IN in("library") + in("hand") + in("battlefield") + in("graveyard") + in("exile")

\* the ids of the cards in the decks
CardIds == UNION {{Roster[i].deck[k].id : k \in DOMAIN Roster[i].deck} : i \in DOMAIN Roster}

C34_VoteBeforeActionDropped ==
  [][/\ (last'.op = "action-vote" /\ last'.id \notin DOMAIN c.pendingActions)
         => /\ Enter(c') = Enter(c)
            /\ c'.out = <<>>
     /\ (/\ last'.op = "game-action"
         /\ steps' = steps + 1
         /\ HasState(c.gameState))
         => /\ c'.gameState = Apply(c.gameState, PeerAction(last'.id))
            /\ c'.stateHistory # c.stateHistory
                 => c'.stateHistory = Append(c.stateHistory,
                                             [state |-> c.gameState, timestamp |-> now])
            /\ last'.id \in DOMAIN c'.pendingActions
                 => \E p \in connected :
                      DOMAIN c'.pendingActions[last'.id].votes \subseteq {Self, p}]_vars

\* with three peers connected, a reject of an action this peer has not seen
\* yet arrived and was dropped
C34_EarlyRejectDropped ==
  /\ last.op = "action-vote"
  /\ last.id \in PeerActionIds
  /\ last.id \notin TrailIds
  /\ ~last.approved
  /\ HasState(c.gameState)
  /\ Cardinality(connected) = 3
  /\ c.pendingActions = <<>>
  /\ c.out = <<>>

\* C35: the votes of a pending entry are keyed by peer: the voters are the
\* local peer and peers that have been linked, so there are at most (peers
\* linked + 1) votes; an action-vote or a game-action for a pending entry
\* from a peer replaces or adds the vote of that one peer and leaves the
\* others: the entry stays pending with exactly those votes, or it is
\* resolved and those votes, one per peer, reach the threshold (last.total
\* is the number of peers that have voted, the sender included).
C35_OneVotePerPeer ==
  [][/\ \A id \in DOMAIN c'.pendingActions :
           /\ DOMAIN c'.pendingActions[id].votes \subseteq {Self} \cup connected'
           /\ Cardinality(DOMAIN c'.pendingActions[id].votes)
                 <= Cardinality(connected') + 1
     /\ (/\ last'.op \in {"action-vote", "game-action"}
         /\ ticks' = ticks
         /\ last'.id \in DOMAIN c.pendingActions)
         => \E p \in connected :
              LET votes == VotesWith(c, last'.id, p,
                                     last'.op = "game-action" \/ last'.approved)
              IN /\ Cardinality(DOMAIN votes) = last'.total
                 /\ IF last'.id \in DOMAIN c'.pendingActions
                    THEN c'.pendingActions[last'.id].votes = votes
                    ELSE 2 * last'.total >= Cardinality(connected) + 1]_vars

\* in a mesh of five a peer that had rejected a pending action sent its
\* game-action: the entry holds two votes as before, both accepts now
C35_VoteChanged ==
  /\ last.op = "game-action"
  /\ last.id \in DOMAIN c.pendingActions
  /\ Cardinality(connected) = 4
  /\ watch.id = last.id
  /\ \E p \in watch.rejecters :
        /\ DOMAIN c.pendingActions[last.id].votes = {Self, p}
        /\ c.pendingActions[last.id].votes[p]
        /\ c.pendingActions[last.id].votes[Self]

\* C36: when a rejected tally calls rollbackAction and the action is not in
\* the action log, or no snapshot precedes the first one later than its log
\* entry, the state, its version, the history and the action log stay as
\* they were, and the pending entry is removed.
C36_FailedRollbackInert ==
  [][(/\ last'.tally = "rejected"
      /\ ticks' = ticks
      /\ last'.id \in DOMAIN c.pendingActions
      /\ ~Restores(c, last'.id))
       => /\ c'.gameState = c.gameState
          /\ c'.stateHistory = c.stateHistory
          /\ c'.actionLog = c.actionLog
          /\ last'.id \notin DOMAIN c'.pendingActions]_vars

\* a peer's action, never logged here, came out rejected: nothing moved and
\* its entry is gone
C36_UnloggedRejected ==
  /\ last.tally = "rejected" /\ last.origin = "peer"
  /\ last.id = watch.id /\ watch.from \notin watch.rejecters
  /\ IndexOfLog(c.actionLog, last.id) = 0
  /\ ~last.restored /\ ~last.changed
  /\ c.actionLog # <<>>
  /\ last.id \notin DOMAIN c.pendingActions

\* C38: the close of a link removes only that link from the peers map: when
\* the map holds a newer link for the same peer id, the close of the older
\* one leaves that entry in place, and the peer is still reported connected
\* while the newer link is.
C38_CloseKeepsNewerLink ==
  [][(/\ mgr'.op = "close"
      /\ mgr.made[mgr'.arg].peerId \in DOMAIN mgr.peers
      /\ mgr.peers[mgr.made[mgr'.arg].peerId] # mgr'.arg)
       => LET p == mgr.made[mgr'.arg].peerId
          IN /\ p \in DOMAIN mgr'.peers
             /\ mgr'.peers[p] = mgr.peers[p]
             /\ mgr.made[mgr.peers[p]].connected
                  => mgr'.peers[p] \in ConnectedLinks(mgr')]_vars

\* an older link closed and took the entry of the newer one with it: a
\* connected link leads to a peer the map no longer holds
C38_NewerLinkForgotten ==
  /\ mgr.op = "close"
  /\ \E l \in 1..Len(mgr.made) :
        /\ l > mgr.arg
        /\ mgr.made[l].peerId = mgr.made[mgr.arg].peerId
        /\ mgr.made[l].open /\ mgr.made[l].connected
        /\ mgr.made[l].peerId \notin DOMAIN mgr.peers

\* the snapshot rollbackAction(actionId) restores
SnapshotBefore(m, actionId) ==
  LET k == IndexOfLog(m.actionLog, actionId)
  IN m.stateHistory[IndexOfLaterSnapshot(m.stateHistory, m.actionLog[k].appliedAt) - 1].state

\* the trail entries after entry i whose action was applied when proposed
AppliedAfter(i) ==
  SelectSeq(SubSeq(trail, i + 1, Len(trail)), LAMBDA x : x.ok /\ x.registered)

\* C39: an action for which applyAction returned false takes no effect
\* later: when a rejected action is rolled back to the state that preceded
\* it, the state afterwards is that state with exactly the actions applied
\* after the rejected one re-applied in order.
C39_ReplayOnlyApplied ==
  [][LET i == IndexOfTrail(last'.id)
     IN (/\ last'.tally = "rejected"
         /\ ticks' = ticks
         /\ last'.id \in DOMAIN c.pendingActions
         /\ i # 0 /\ NoneRejected
         /\ Restores(c, last'.id)
         /\ SnapshotBefore(c, last'.id) = trail[i].before)
          => c'.gameState = Reapply(AppliedAfter(i), trail[i].before)]_vars

\* a rollback has re-applied an action that applyAction had refused: the
\* state holds its effect
C39_RefusedActionReplayed ==
  LET i == IndexOfTrail(last.id)
  IN /\ last.tally = "rejected" /\ last.restored /\ last.first
     /\ i # 0
     /\ \E j \in (i + 1)..Len(trail) : trail[j].origin = "local" /\ ~trail[j].registered
     /\ c.gameState = Reapply(SubSeq(trail, i + 1, Len(trail)), trail[i].before)
     /\ c.gameState # Reapply(AppliedAfter(i), trail[i].before)

\* C40: a commit starts a bounded exchange of game-state messages in which
\* no peer accepts the same version twice: a state a peer has just accepted
\* from the mesh is not one its history shows it held before.
C40_NoVersionAcceptedTwice ==
  (last.op = "game-state" /\ last.changed /\ last.known)
     => \A k \in DOMAIN c.stateHistory : c.stateHistory[k].state # c.gameState

\* the state just accepted from a peer is one the local peer had accepted
\* and rolled away from: it was the state replaced by an older snapshot
C40_AcceptedAgain ==
  /\ last.op = "game-state" /\ last.changed /\ last.known
  /\ \E k \in 1..(Len(c.stateHistory) - 1) :
        /\ c.stateHistory[k].state = c.gameState
        /\ c.stateHistory[k + 1].state.version < c.gameState.version

=============================================================================
